---- MODULE Spec2Model ----
(***************************************************************************)
(* A model of the query translator of the MongoDB adapter (buildQuery,     *)
(* buildSearchParam) and of the schema derivation engine                   *)
(* (configToJSONSchema.ts) of payload.                                     *)
(*                                                                         *)
(* Representation of JavaScript values                                     *)
(*   - a string that the code takes apart (a field path, a query value, an *)
(*     alias) is a sequence of symbols: a path is a sequence of segment    *)
(*     names and separators ("." and "__"), a query value is a sequence of *)
(*     characters;                                                         *)
(*   - a string that the code only compares or copies (a slug, a field     *)
(*     name, an operator) is a TLA+ string;                                *)
(*   - an object is a record; an optional property is a key that may be    *)
(*     missing from the record's DOMAIN;                                   *)
(*   - an array is a sequence; a Map, and an object whose keys are         *)
(*     computed, is a sequence of [k, v] entries in insertion order.       *)
(***************************************************************************)
EXTENDS Integers, Sequences, FiniteSets, TLC

VARIABLES
  collectionSlug,  \* the collection the Model of the request belongs to
  where,           \* the Where tree given to buildQuery
  pipeline,        \* the caller's join-stage accumulator (PipelineStage[])
  projection,      \* the caller's projection object, or absent
  outcome,         \* what buildQuery did: returned a filter, or threw
  calls,           \* the buildSearchParam calls of the last buildQuery, in order
  fields,          \* the Field[] given to the schema derivation
  registry,        \* interfaceNameDefinitions: the Map given to the derivation
  registered,      \* the interfaceNameDefinitions.set calls of the derivation, in order
  schema,          \* what fieldsToJSONSchema did: returned, or threw
  heap,            \* the objects of the loaded configuration and of its copies
  config,          \* config.globals and config.collections: addresses of entities
  generated,       \* what entityToJSONSchema or configToJSONSchema did last
  database,        \* the documents of the store, by collection
  request,         \* the deleteMany or deleteVersions request under way
  dbCalls,         \* the calls the database has served, in order
  page,            \* the page request handleAuthRedirect is called for
  dialog           \* the PublishMany component: its modal, its state, its requests

vars == <<collectionSlug, where, pipeline, projection, outcome, calls,
          fields, registry, registered, schema, heap, config, generated,
          database, request, dbCalls, page, dialog>>

queryVars == <<collectionSlug, where, pipeline, projection, outcome, calls>>
schemaVars == <<fields, registry, registered, schema>>
entityVars == <<heap, config, generated>>
deleteVars == <<database, request, dbCalls>>
redirectVars == <<page>>
publishVars == <<dialog>>

(***************************************************************************)
(* Bounds of the model.                                                    *)
(***************************************************************************)
\* the longest query value, in characters
MaxValLen == 3
\* the most children of one and/or node
MaxChildren == 2
\* the most fields of a field list that holds several fields
MaxFields == 2
\* the most child fields, blocks or tabs of one composite field
MaxSubFields == 2

(***************************************************************************)
(* Generic helpers on sequences.                                           *)
(***************************************************************************)
RECURSIVE Flatten(_)
Flatten(ss) == IF ss = <<>> THEN <<>> ELSE Head(ss) \o Flatten(Tail(ss))

IsPrefix(p, s) == Len(p) <= Len(s) /\ SubSeq(s, 1, Len(p)) = p

\* every sequence over S of length at most n
SeqsUpTo(S, n) == UNION {[1..k -> S] : k \in 0..n}

\* String.prototype.split(sep) for a one-symbol separator: the pieces between
\* the occurrences of sep, empty pieces included
RECURSIVE SplitAt(_, _)
SplitAt(s, sep) ==
  IF \A i \in 1..Len(s) : s[i] # sep
    THEN <<s>>
    ELSE LET i == CHOOSE k \in 1..Len(s) :
                    s[k] = sep /\ \A j \in 1..(k - 1) : s[j] # sep
         IN <<SubSeq(s, 1, i - 1)>> \o SplitAt(SubSeq(s, i + 1, Len(s)), sep)

\* Array.prototype.join(sep)
RECURSIVE JoinWith(_, _)
JoinWith(parts, sep) ==
  IF parts = <<>> THEN <<>>
  ELSE IF Len(parts) = 1 THEN parts[1]
  ELSE parts[1] \o <<sep>> \o JoinWith(Tail(parts), sep)

(***************************************************************************)
(* The configuration the translator runs against: three collections.       *)
(* posts has no custom id, articles has a custom text id, users a custom   *)
(* number id.  posts.article -> articles, articles.author -> users;        *)
(* posts.owner is polymorphic (articles or users); posts.image and         *)
(* posts.cover are uploads, to users and to articles.                      *)
(***************************************************************************)
Collections == {"posts", "articles", "users"}

TextField(n) == [name |-> n, type |-> "text"]
RelField(n, to) ==
  [name |-> n, type |-> "relationship", relationTo |-> [isArray |-> FALSE, to |-> <<to>>]]
PolyRelField(n, tos) ==
  [name |-> n, type |-> "relationship", relationTo |-> [isArray |-> TRUE, to |-> tos]]
UploadField(n, to) ==
  [name |-> n, type |-> "upload", relationTo |-> [isArray |-> FALSE, to |-> <<to>>]]
GroupField(n, fs) == [name |-> n, type |-> "group", fields |-> fs]

\* payload.collections: slug -> { customIDType?, config: { fields } }
PayloadCollections ==
  [posts    |-> [config |-> [fields |-> << TextField("title"),
                                           RelField("article", "articles"),
                                           PolyRelField("owner", <<"articles", "users">>),
                                           UploadField("image", "users"),
                                           UploadField("cover", "articles"),
                                           GroupField("meta", <<TextField("slug")>>) >>]],
   articles |-> [customIDType |-> "text",
                 config |-> [fields |-> << TextField("title"),
                                           RelField("author", "users") >>]],
   users    |-> [customIDType |-> "number",
                 config |-> [fields |-> << TextField("name") >>]]]

\* payload.db.defaultIDType of the MongoDB adapter
DefaultIDType == "text"

(***************************************************************************)
(* Query values.  A value is [t, s]: t its JavaScript type as the code     *)
(* tests it ("string", "number", "objectid"), s its text as a sequence of  *)
(* characters.  HEX stands for a block of 24 hexadecimal letters (a-f), so *)
(* the string <<HEX>> is the one string of the model that is a valid       *)
(* ObjectId.  A number's text is its decimal notation, <<>> for NaN.       *)
(***************************************************************************)
HEX == "H"
TAB == "\t"
SPACE == " "
Chars == {"a", "1", SPACE, TAB, ".", HEX}
Digits == {"1"}
\* JavaScript white space, as parseFloat skips it
WhiteSpace == {SPACE, TAB}

Str(s) == [t |-> "string", s |-> s]
Num(s) == [t |-> "number", s |-> s]
Oid(s) == [t |-> "objectid", s |-> s]

\* mongoose.Types.ObjectId.isValid on a string
ObjectIdIsValid(s) == s = <<HEX>>

\* the longest prefix of s made of symbols of S
RECURSIVE TakeWhile(_, _)
TakeWhile(s, S) ==
  IF s = <<>> \/ Head(s) \notin S THEN <<>> ELSE <<Head(s)>> \o TakeWhile(Tail(s), S)

DropWhile(s, S) == SubSeq(s, Len(TakeWhile(s, S)) + 1, Len(s))

\* parseFloat: skips leading white space, reads digits [. digits]; NaN when
\* no digit was read
ParseFloat(s) ==
  LET t == DropWhile(s, WhiteSpace)
      int == TakeWhile(t, Digits)
      rest == DropWhile(t, Digits)
      frac == IF rest # <<>> /\ Head(rest) = "." THEN TakeWhile(Tail(rest), Digits) ELSE <<>>
  IN IF int = <<>> /\ frac = <<>> THEN Num(<<>>)
     ELSE Num((IF int = <<>> THEN <<"0">> ELSE int)
              \o (IF frac = <<>> THEN <<>> ELSE <<".">> \o frac))

(***************************************************************************)
(* The Path Resolver getLocalizedPaths.  Its source is not among the       *)
(* files; it is modelled from section 4.1 of the specification: the dotted *)
(* segments are walked against the fields of the current collection, a     *)
(* relationship that is not the last segment moves to its target           *)
(* collection and starts a new PathToQuery entry, the last segment is      *)
(* complete, and a segment that names no field makes the path invalid      *)
(* (InvalidPathError).                                                     *)
(***************************************************************************)
FieldNamed(fs, n) ==
  LET hits == SelectSeq(fs, LAMBDA f : f.name = n)
  IN IF hits = <<>> THEN <<>> ELSE <<hits[1]>>

InvalidPaths == [invalid |-> TRUE, paths |-> <<>>]

RECURSIVE WalkSegments(_, _, _, _)
WalkSegments(slug, fs, segs, prefix) ==
  LET seg == Head(segs)
      rest == Tail(segs)
      here == IF prefix = <<>> THEN seg ELSE prefix \o <<".">> \o seg
      hit == IF Len(seg) = 1 THEN FieldNamed(fs, seg[1]) ELSE <<>>
  IN IF hit = <<>>
       THEN IF here = <<"id">> /\ rest = <<>>
              THEN [invalid |-> FALSE,
                    paths |-> << [collectionSlug |-> slug, complete |-> TRUE,
                                  field |-> [name |-> "id", type |-> DefaultIDType],
                                  path |-> here] >>]
              ELSE InvalidPaths
       ELSE LET f == hit[1]
                entry == [collectionSlug |-> slug, complete |-> TRUE, field |-> f, path |-> here]
            IN IF f.type \in {"relationship", "upload"}
                 THEN IF rest = <<>>
                        THEN [invalid |-> FALSE, paths |-> <<entry>>]
                      ELSE IF f.relationTo.isArray
                        THEN InvalidPaths
                      ELSE LET target == f.relationTo.to[1]
                               more == WalkSegments(target,
                                                    PayloadCollections[target].config.fields,
                                                    rest, <<>>)
                           IN IF more.invalid THEN InvalidPaths
                              ELSE [invalid |-> FALSE, paths |-> <<entry>> \o more.paths]
               ELSE IF rest = <<>>
                 THEN [invalid |-> FALSE, paths |-> <<entry>>]
               ELSE IF "fields" \in DOMAIN f
                 THEN WalkSegments(slug, f.fields, rest, here)
               ELSE InvalidPaths

getLocalizedPaths(slug, fs, incomingPath) ==
  WalkSegments(slug, fs, SplitAt(incomingPath, "."), <<>>)

(***************************************************************************)
(* The Operator Semantics Table.  validOperators, operatorMap and          *)
(* sanitizeQueryValue are imported by buildSearchParam from files that are *)
(* not among the sources; they are modelled from sections 3 and 4.3 of the *)
(* specification.                                                          *)
(***************************************************************************)
validOperators ==
  {"equals", "not_equals", "in", "not_in", "all", "exists", "greater_than",
   "greater_than_equal", "less_than", "less_than_equal", "like", "contains",
   "within", "intersects", "near"}

\* operator -> backend symbol; like and near have no simple symbol
operatorMap ==
  [equals |-> "$eq", not_equals |-> "$ne", in |-> "$in", not_in |-> "$nin",
   all |-> "$all", exists |-> "$exists", greater_than |-> "$gt",
   greater_than_equal |-> "$gte", less_than |-> "$lt", less_than_equal |-> "$lte",
   contains |-> "$regex", within |-> "$geoWithin", intersects |-> "$geoIntersects"]

\* the value formatting of identifiers: a string compared to the default
\* (ObjectId) _id is coerced to an ObjectId, a string compared to a number
\* field is coerced to a number; the operator is kept, and no raw query is
\* produced for the operators of the model
sanitizeQueryValue(field, hasCustomID, operator, path, val) ==
  [operator |-> operator,
   val |-> IF val.t = "string" /\ path = <<"_id">> /\ ~hasCustomID /\ ObjectIdIsValid(val.s)
             THEN Oid(val.s)
           ELSE IF val.t = "string" /\ field.type = "number" /\ ParseFloat(val.s).s # <<>>
             THEN ParseFloat(val.s)
           ELSE val,
   hasRawQuery |-> FALSE]

(***************************************************************************)
(* buildSearchParam (src/unnamed/part_003).                                *)
(***************************************************************************)
\* incomingPath.replace(/__/g, '.')
ReplaceDoubleUnderscore(p) == [i \in 1..Len(p) |-> IF p[i] = "__" THEN "." ELSE p[i]]

\* word.replace(/[\\^$*+?.()|[\]{}]/g, '\\$&')
RegexMeta == {"\\", "^", "$", "*", "+", "?", ".", "(", ")", "|", "[", "]", "{", "}"}
EscapeRegex(word) ==
  Flatten([i \in 1..Len(word) |->
             IF word[i] \in RegexMeta THEN <<"\\", word[i]>> ELSE <<word[i]>>])

\* collectionSlug.endsWith('s') ? collectionSlug : `${collectionSlug}s`
SlugEndsWithS == [posts |-> TRUE, articles |-> TRUE, users |-> TRUE]
LookupFrom(slug) == IF SlugEndsWithS[slug] THEN slug ELSE slug \o "s"

\* the projection argument: absent, or an object whose keys are all false
NoProjection == [present |-> FALSE, falseKeys |-> {}]
EmptyProjection == [present |-> TRUE, falseKeys |-> {}]

\* mutant of LookupStage: every stage joins on the plain path, the alias of
\* the previous stage is forgotten
LookupStageOnPlainPath(i, currentPath, pathToQuery) ==
  [stage |-> "$lookup",
   as |-> <<"_">> \o currentPath,
   foreignField |-> "_id",
   from |-> LookupFrom(pathToQuery.collectionSlug),
   localField |-> currentPath]

\* lines 130-139: the stage pushed in iteration i
LookupStage(i, currentPath, pathToQuery) ==
  [stage |-> "$lookup",
   as |-> <<"_">> \o currentPath,
   foreignField |-> "_id",
   from |-> LookupFrom(pathToQuery.collectionSlug),
   localField |-> IF i = 1 THEN currentPath ELSE <<"_">> \o currentPath]

\* a loop that leaves the projection as it was given
ProjectionKept(i, currentPath, proj) == proj

\* lines 141-144: the joined document is taken out of the result when a
\* projection object was passed
ProjectionWithoutJoined(i, currentPath, proj) ==
  IF i = 1 /\ proj.present
    THEN [proj EXCEPT !.falseKeys = @ \cup {<<"_">> \o currentPath}]
    ELSE proj

\* the for loop of lines 113-151; i counts from 0 as in the code, st is
\* [currentPath, pipeline, projection, isID], currentPath <<>> when unset
RECURSIVE LookupLoop(_, _, _)
LookupLoop(paths, i, st) ==
  IF i >= Len(paths) THEN st
  ELSE
    LET pathToQuery == paths[i + 1]
        currentPath == IF st.currentPath = <<>> THEN pathToQuery.path ELSE st.currentPath
    IN IF i + 1 = Len(paths) - 1 /\ paths[i + 2].path = <<"id">>
         THEN [st EXCEPT !.currentPath = currentPath, !.isID = TRUE]
       ELSE IF i = 0
         THEN LookupLoop(paths, i + 1, [st EXCEPT !.currentPath = currentPath])
       ELSE
         LookupLoop(paths, i + 1,
              [currentPath |-> IF currentPath = <<>> THEN pathToQuery.path
                               ELSE currentPath \o <<".">> \o pathToQuery.path,
               pipeline |-> Append(st.pipeline, LookupStage(i, currentPath, pathToQuery)),
               projection |-> ProjectionWithoutJoined(i, currentPath, st.projection),
               isID |-> st.isID])

\* mutant of JoinedPath: without the case of a two-segment path ending in id
JoinedPathAlwaysAlias(paths) ==
  <<"_">> \o JoinWith(SelectSeq(
                        [i \in 1..Len(paths) |->
                           IF i = Len(paths) - 1 /\ paths[i + 1].path = <<"id">>
                             THEN <<>> ELSE paths[i].path],
                        LAMBDA x : x # <<>>), ".")

\* lines 153-165: the path the comparison is placed on when paths.length > 1
JoinedPath(paths) ==
  IF Len(paths) = 2 /\ paths[2].path = <<"id">>
    THEN paths[1].path
    ELSE LET kept == SelectSeq(
                       [i \in 1..Len(paths) |->
                          IF i = Len(paths) - 1 /\ paths[i + 1].path = <<"id">>
                            THEN <<>> ELSE paths[i].path],
                       LAMBDA x : x # <<>>)
         IN <<"_">> \o JoinWith(kept, ".")

Undefined == [kind |-> "undefined"]

\* mutant of LikeFragments: a like that drops the empty words, as a
\* tokenizer on runs of spaces would
LikeFragmentsOfTokens(path, words) ==
  [k \in 1..Len(SelectSeq(words, LAMBDA w : w # <<>>)) |->
     [path |-> path, options |-> "i",
      regex |-> EscapeRegex(SelectSeq(words, LAMBDA w : w # <<>>)[k])]]

\* lines 219-232: one case-insensitive regex per word, all under $and
LikeFragments(path, words) ==
  [k \in 1..Len(words) |->
     [path |-> path, options |-> "i", regex |-> EscapeRegex(words[k])]]

LikeQuery(path, words) ==
  [kind |-> "value", value |-> [q |-> "$and", frags |-> LikeFragments(path, words)]]

\* payload.collections[relationTo]?.customIDType === 'number'
IsRelatedToCustomNumberID(relationTo) ==
  /\ "customIDType" \in DOMAIN PayloadCollections[relationTo]
  /\ PayloadCollections[relationTo].customIDType = "number"

\* only the first declared target is looked at
FirstHasNumberID(relationTo) == IsRelatedToCustomNumberID(relationTo[1])

\* lines 194-203: the forEach over the declared targets
HasNumberIDRelation(relationTo) ==
  \E k \in 1..Len(relationTo) : IsRelatedToCustomNumberID(relationTo[k])

\* lines 172-248, once path, formattedValue and formattedOperator are known
OperatorBranch(paths, field, path, formattedOperator, formattedValue) ==
  IF formattedOperator \notin validOperators THEN Undefined
  ELSE
    LET hasKey == formattedOperator \in DOMAIN operatorMap
        operatorKey == IF hasKey THEN operatorMap[formattedOperator] ELSE "undefined"
        multiIDCondition == IF operatorKey = "$ne" THEN "$and" ELSE "$or"
        first == [path |-> path, op |-> operatorKey, val |-> formattedValue]
        relationTo == field.relationTo.to
        hasNumberIDRelation == HasNumberIDRelation(relationTo)
        branches ==
          IF formattedValue.t # "string" THEN <<first>>
          ELSE IF ObjectIdIsValid(formattedValue.s)
            THEN <<first, [path |-> path, op |-> operatorKey, val |-> Oid(formattedValue.s)]>>
          ELSE IF hasNumberIDRelation
            THEN <<first, [path |-> path, op |-> operatorKey,
                           val |-> ParseFloat(formattedValue.s)]>>
          ELSE <<first>>
    IN IF /\ Len(paths) < 2
          /\ field.type \in {"relationship", "upload"}
          /\ Len(branches) > 1
         THEN [kind |-> "value",
               value |-> [q |-> multiIDCondition, branches |-> branches]]
       ELSE IF formattedOperator = "like" /\ formattedValue.t = "string"
         THEN LikeQuery(path, SplitAt(formattedValue.s, SPACE))
       ELSE IF ~hasKey
         THEN [kind |-> "pathvalue", path |-> path,
               value |-> [q |-> "verbatim", val |-> formattedValue]]
       ELSE [kind |-> "pathvalue", path |-> path,
             value |-> [q |-> "cmp", op |-> operatorKey, val |-> formattedValue]]

\* The result of buildSearchParam is what the caller can observe:
\*   threw      "none", or the error thrown ("InvalidPathError" by the path
\*              resolver, "BSONError" by new ObjectId on a malformed string)
\*   ret        the SearchParam returned (Undefined for `return undefined`)
\*   paths      the resolved PathToQuery list
\*   pipeline, projection   the caller's accumulator and projection afterwards
SearchParamResult(threw, ret, paths, pl, proj) ==
  [threw |-> threw, ret |-> ret, paths |-> paths, pipeline |-> pl, projection |-> proj]

\* lines 167-250: loop is the state the for loop ended in (the accumulator
\* and the projection as they now are), result what sanitizeQueryValue gave
AfterLookups(paths, field, path, result, loop) ==
  IF loop.isID /\ result.val.t = "string"
    THEN IF ObjectIdIsValid(result.val.s)
           THEN SearchParamResult("none",
                  OperatorBranch(paths, field, path, result.operator, Oid(result.val.s)),
                  paths, loop.pipeline, loop.projection)
           ELSE SearchParamResult("BSONError", Undefined, paths,
                                  loop.pipeline, loop.projection)
    ELSE SearchParamResult("none",
           OperatorBranch(paths, field, path, result.operator, result.val),
           paths, loop.pipeline, loop.projection)

NoLookups(pl, proj) ==
  [currentPath |-> <<>>, pipeline |-> pl, projection |-> proj, isID |-> FALSE]

\* lines 87-170, once the paths are resolved and the value is sanitized
WithSanitized(paths, result, pl, proj) ==
  IF paths[1].path = <<>>
    THEN SearchParamResult("none", Undefined, paths, pl, proj)
  ELSE IF result.hasRawQuery
    THEN SearchParamResult("none", [kind |-> "value", value |-> [q |-> "raw"]],
                           paths, pl, proj)
  ELSE IF Len(paths) > 1
    THEN AfterLookups(paths, paths[1].field, JoinedPath(paths), result,
                      LookupLoop(paths, 0, NoLookups(pl, proj)))
  ELSE AfterLookups(paths, paths[1].field, paths[1].path, result, NoLookups(pl, proj))

\* lines 87-97, once the paths are resolved
WithPaths(resolved, hasCustomID, operator, val, pl, proj) ==
  IF resolved.invalid
    THEN SearchParamResult("InvalidPathError", Undefined, <<>>, pl, proj)
    ELSE WithSanitized(resolved.paths,
                       sanitizeQueryValue(resolved.paths[1].field, hasCustomID, operator,
                                          resolved.paths[1].path, val),
                       pl, proj)

\* mutant of IdPaths: the declared custom id type is ignored
IdPathsAlwaysText(slug) ==
  [invalid |-> FALSE,
   paths |-> << [collectionSlug |-> slug, complete |-> TRUE,
                 field |-> [name |-> "id", type |-> "text"],
                 path |-> <<"_id">>] >>]

\* lines 57-75: the single segment of the path `_id`
IdPaths(slug) ==
  [invalid |-> FALSE,
   paths |-> << [collectionSlug |-> slug, complete |-> TRUE,
                 field |-> [name |-> "id",
                            type |-> IF "customIDType" \in DOMAIN PayloadCollections[slug]
                                       THEN PayloadCollections[slug].customIDType
                                       ELSE "text"],
                 path |-> <<"_id">>] >>]

\* lines 47-51
SanitizedPath(incomingPath) ==
  IF ReplaceDoubleUnderscore(incomingPath) = <<"id">>
    THEN <<"_id">> ELSE ReplaceDoubleUnderscore(incomingPath)

WithSanitizedPath(slug, sanitizedPath, operator, val, pl, proj) ==
  IF sanitizedPath = <<"_id">>
    THEN WithPaths(IdPaths(slug), "customIDType" \in DOMAIN PayloadCollections[slug],
                   operator, val, pl, proj)
    ELSE WithPaths(getLocalizedPaths(slug, PayloadCollections[slug].config.fields,
                                     sanitizedPath),
                   FALSE, operator, val, pl, proj)

buildSearchParam(slug, incomingPath, operator, val, pl, proj) ==
  WithSanitizedPath(slug, SanitizedPath(incomingPath), operator, val, pl, proj)

(***************************************************************************)
(* parseParams.  Its source is not among the files; it is modelled from    *)
(* section 4.2 of the specification and from its call in buildQuery: it    *)
(* receives no error list, walks the Where tree, translates each leaf with *)
(* buildSearchParam threading the one join-stage accumulator, and combines *)
(* the children of an and/or node under $and/$or.  A leaf for which        *)
(* buildSearchParam returns undefined adds nothing to the filter; an       *)
(* exception of buildSearchParam ends the walk.                            *)
(*                                                                         *)
(* A Where node is [kind |-> "leaf", path, op, val] or                     *)
(* [kind |-> "and" | "or", children].  A filter is a sequence of entries   *)
(* [key, value] (a comparison) or [key, children] (a connector).           *)
(***************************************************************************)
Leaf(path, op, val) == [kind |-> "leaf", path |-> path, op |-> op, val |-> val]
Connector(kind, children) == [kind |-> kind, children |-> children]

LeafFilter(ret) ==
  IF ret.kind = "pathvalue" THEN << [key |-> ret.path, value |-> ret.value] >>
  ELSE IF ret.kind = "value" THEN << [key |-> <<ret.value.q>>, value |-> ret.value] >>
  ELSE <<>>

\* what one leaf contributes; r is the result of its buildSearchParam call
LeafParsed(node, pl, proj, r) ==
  [threw |-> r.threw,
   filter |-> IF r.threw = "none" THEN LeafFilter(r.ret) ELSE <<>>,
   pipeline |-> r.pipeline,
   projection |-> r.projection,
   calls |-> << [leaf |-> node, before |-> pl, projectionBefore |-> proj,
                 threw |-> r.threw, ret |-> r.ret, paths |-> r.paths,
                 after |-> r.pipeline, projectionAfter |-> r.projection] >>]

\* what an and/or node contributes; acc is the result of its children
ConnectorParsed(node, acc) ==
  [threw |-> acc.threw,
   filter |-> IF acc.threw = "none"
                THEN << [key |-> <<IF node.kind = "and" THEN "$and" ELSE "$or">>,
                         children |-> acc.filters] >>
                ELSE <<>>,
   pipeline |-> acc.pipeline,
   projection |-> acc.projection,
   calls |-> acc.calls]

\* the accumulated result of the children translated so far, r the next one
ChildParsed(acc, r) ==
  [threw |-> r.threw,
   filters |-> Append(acc.filters, r.filter),
   pipeline |-> r.pipeline,
   projection |-> r.projection,
   calls |-> acc.calls \o r.calls]

RECURSIVE parseParams(_, _, _, _)
RECURSIVE ParseChildren(_, _, _)
parseParams(slug, node, pl, proj) ==
  IF node.kind = "leaf"
    THEN LeafParsed(node, pl, proj,
                    buildSearchParam(slug, node.path, node.op, node.val, pl, proj))
    ELSE ConnectorParsed(node,
           ParseChildren(slug, node.children,
                         [threw |-> "none", filters |-> <<>>, pipeline |-> pl,
                          projection |-> proj, calls |-> <<>>]))

ParseChildren(slug, children, acc) ==
  IF children = <<>> \/ acc.threw # "none" THEN acc
  ELSE ParseChildren(slug, Tail(children),
         ChildParsed(acc, parseParams(slug, Head(children), acc.pipeline, acc.projection)))

(***************************************************************************)
(* buildQuery (packages/db-mongodb/src/queries/buildQuery.ts).  `errors`   *)
(* is a local array that is passed to nobody.                              *)
(***************************************************************************)
\* lines 61-65; result is what parseParams gave (or that it threw)
ThrowOrReturn(errors, result) ==
  [pipeline |-> result.pipeline, projection |-> result.projection, calls |-> result.calls]
  @@ (IF result.threw # "none"
        THEN [state |-> "threw", error |-> result.threw, errors |-> <<>>, filter |-> <<>>]
      ELSE IF Len(errors) > 0
        THEN [state |-> "threw", error |-> "QueryError", errors |-> errors, filter |-> <<>>]
      ELSE [state |-> "returned", error |-> "none", errors |-> <<>>,
            filter |-> result.filter])

buildQuery(slug, w, pl, proj) ==
  ThrowOrReturn(<<>>, parseParams(slug, w, pl, proj))

(***************************************************************************)
(* The document store.  MongoDB is not among the sources; what matters     *)
(* here of Model.aggregate and Model.deleteMany is modelled from their     *)
(* documented behaviour: a database is a record of collections, each a     *)
(* sequence of documents; a document is a record of values ([t, s] as      *)
(* above); the field a $lookup adds holds the sequence of joined           *)
(* documents.  Filters are evaluated on own fields and on the fields of    *)
(* one join.                                                               *)
(***************************************************************************)
\* the name a sequence of path symbols spells
RECURSIVE KeyOf(_)
KeyOf(tokens) == IF tokens = <<>> THEN "" ELSE Head(tokens) \o KeyOf(Tail(tokens))

\* the values a document holds at a filter key: its own field, or the field
\* of each document joined under `_<field>`
ValuesAt(doc, key) ==
  IF Len(key) = 1
    THEN IF key[1] \in DOMAIN doc THEN {doc[key[1]]} ELSE {}
  ELSE IF Len(key) = 4 /\ key[1] = "_" /\ key[3] = "." /\ KeyOf(SubSeq(key, 1, 2)) \in DOMAIN doc
    THEN { doc[KeyOf(SubSeq(key, 1, 2))][j][key[4]] :
             j \in { k \in 1..Len(doc[KeyOf(SubSeq(key, 1, 2))]) :
                       key[4] \in DOMAIN doc[KeyOf(SubSeq(key, 1, 2))][k] } }
  ELSE {}

\* one comparison: $eq holds when some value at the key equals the operand,
\* $ne when none does, $in when some value is among the operands
Compares(doc, key, value) ==
  CASE value.q = "cmp" /\ value.op = "$eq" ->
         \E v \in ValuesAt(doc, key) : v = value.val
    [] value.q = "cmp" /\ value.op = "$ne" ->
         \A v \in ValuesAt(doc, key) : v # value.val
    [] value.q = "in" ->
         \E v \in ValuesAt(doc, key) : \E i \in 1..Len(value.vals) : v = value.vals[i]
    [] OTHER -> FALSE

\* a document matches a filter when it matches each of its entries
RECURSIVE Matches(_, _)
Matches(doc, filter) ==
  \A i \in 1..Len(filter) :
    IF "children" \in DOMAIN filter[i]
      THEN IF filter[i].key = <<"$and">>
             THEN \A c \in 1..Len(filter[i].children) : Matches(doc, filter[i].children[c])
             ELSE \E c \in 1..Len(filter[i].children) : Matches(doc, filter[i].children[c])
      ELSE Compares(doc, filter[i].key, filter[i].value)

\* $lookup: the documents of `from` whose foreignField equals the localField
Joined(db, doc, stage) ==
  SelectSeq(db[stage.from],
            LAMBDA j : /\ KeyOf(stage.localField) \in DOMAIN doc
                       /\ j[stage.foreignField] = doc[KeyOf(stage.localField)])

StageApplied(db, docs, stage) ==
  CASE stage.stage = "$lookup" ->
         [i \in 1..Len(docs) |-> (KeyOf(stage.as) :> Joined(db, docs[i], stage)) @@ docs[i]]
    [] stage.stage = "$match" -> SelectSeq(docs, LAMBDA d : Matches(d, stage.query))
    [] stage.stage = "$project" -> [i \in 1..Len(docs) |-> [_id |-> docs[i]._id]]

\* Model.aggregate(pipeline): the stages applied in order, from the i-th on
RECURSIVE aggregate(_, _, _, _)
aggregate(db, docs, pl, i) ==
  IF i > Len(pl) THEN docs
  ELSE aggregate(db, StageApplied(db, docs, pl[i]), pl, i + 1)

\* Model.deleteMany(query): the documents that match are removed
deleteManyDocs(docs, query) == SelectSeq(docs, LAMBDA d : ~Matches(d, query))

\* Model.findOneAndDelete(query): the first document that matches, if any
FoundOne(docs, query) ==
  IF \E i \in 1..Len(docs) : Matches(docs[i], query)
    THEN << docs[CHOOSE i \in 1..Len(docs) :
                   /\ Matches(docs[i], query)
                   /\ \A j \in 1..(i - 1) : ~Matches(docs[j], query)] >>
    ELSE <<>>

\* and the documents left: all but that one
findOneAndDeleteDocs(docs, query) ==
  SelectSeq(docs, LAMBDA d : FoundOne(docs, query) # <<d>>)

\* JSON.parse(JSON.stringify(doc)): an ObjectId comes back as its string
Jsonified(doc) ==
  [k \in DOMAIN doc |-> IF doc[k].t = "objectid" THEN Str(doc[k].s) ELSE doc[k]]

(***************************************************************************)
(* buildQueryWithAggregate                                                 *)
(* (packages/db-mongodb/src/utilities/buildQueryWithAggregate.ts).  A      *)
(* Model is [store, slug]: the collection of the database it reads and     *)
(* writes, and the collection whose fields its buildQuery resolves paths   *)
(* against.                                                                *)
(***************************************************************************)
\* lines 26-28
MatchStage(query) == [stage |-> "$match", query |-> query]

\* line 30
ProjectIdStage == [stage |-> "$project", keys |-> <<"_id">>]

\* a pipeline that projects before it matches
ProjectThenMatch(pl, query) == pl \o <<ProjectIdStage, MatchStage(query)>>

\* lines 25-30: the pipeline after the two pushes
AggregatePipeline(pl, query) == pl \o <<MatchStage(query), ProjectIdStage>>

\* lines 34-38
IdIn(result) ==
  << [key |-> <<"_id">>,
      value |-> [q |-> "in", vals |-> [i \in 1..Len(result) |-> result[i]._id]]] >>

\* lines 32-38: the aggregation is run and its ids are returned
Aggregated(pl, result) ==
  [state |-> "returned", error |-> "none", query |-> IdIn(result),
   dbCalls |-> << [call |-> "aggregate", pipeline |-> pl, result |-> result] >>]

\* lines 25-41, r what Model.buildQuery did
WithQuery(db, Model, r) ==
  IF r.state = "threw"
    THEN [state |-> "threw", error |-> r.error, query |-> <<>>, dbCalls |-> <<>>]
  ELSE IF Len(r.pipeline) > 0
    THEN Aggregated(AggregatePipeline(r.pipeline, r.filter),
                    aggregate(db, db[Model.store],
                              AggregatePipeline(r.pipeline, r.filter), 1))
  ELSE [state |-> "returned", error |-> "none", query |-> r.filter, dbCalls |-> <<>>]

\* lines 21-23: a fresh pipeline, no projection
buildQueryWithAggregate(db, Model, w) ==
  WithQuery(db, Model, buildQuery(Model.slug, w, <<>>, NoProjection))

(***************************************************************************)
(* Schema derivation                                                       *)
(* (packages/payload/src/utilities/configToJSONSchema.ts).                 *)
(*                                                                         *)
(* A Field is a record; `required`, `hasMany`, `admin`, `interfaceName`,   *)
(* `editor` and `name` are keys that may be missing.  relationTo is        *)
(* [isArray, to] as above.  An Option is [string |-> s] when it is given as *)
(* a string and [label, value] when it is given as an object.  An editor   *)
(* is "function" (the unsanitized form) or "sanitized" (an adapter object  *)
(* without outputSchema).                                                  *)
(*                                                                         *)
(* A JSON schema is a record with the keys the code writes.  `type` is     *)
(* always a sequence of type names: <<"string">> is the source's           *)
(* 'string', <<"string", "null">> its ['string', 'null'].  `properties`,   *)
(* whose keys are field names, is a sequence of [k, v] entries in          *)
(* insertion order, as is every Map.  A Set<string> is a sequence without  *)
(* repetition, in insertion order.                                         *)
(*                                                                         *)
(* Not modelled: the user callbacks field.typescriptSchema,                *)
(* field.jsonSchema and editor.outputSchema; no field of the model carries *)
(* one.                                                                    *)
(***************************************************************************)
\* Map.prototype.has, get and set
MapHas(m, k) == \E i \in 1..Len(m) : m[i].k = k
MapGet(m, k) == m[CHOOSE i \in 1..Len(m) : m[i].k = k].v
MapSet(m, k, v) ==
  IF MapHas(m, k)
    THEN [i \in 1..Len(m) |-> IF m[i].k = k THEN [k |-> k, v |-> v] ELSE m[i]]
    ELSE Append(m, [k |-> k, v |-> v])

\* entries.forEach(([k, v]) => m.set(k, v))
RECURSIVE MapSetAll(_, _)
MapSetAll(m, entries) ==
  IF entries = <<>> THEN m
  ELSE MapSetAll(MapSet(m, Head(entries).k, Head(entries).v), Tail(entries))

\* Set.prototype.add
SetAdd(s, x) == IF \E i \in 1..Len(s) : s[i] = x THEN s ELSE Append(s, x)

\* names.forEach((n) => s.add(n))
RECURSIVE SetAddAll(_, _)
SetAddAll(s, names) ==
  IF names = <<>> THEN s ELSE SetAddAll(SetAdd(s, Head(names)), Tail(names))

\* the types of the fields that hold no data of their own
LayoutTypes == {"row", "collapsible", "tabs", "ui"}

\* fields/config/types.ts: a field affects data when it has a name and is not
\* a layout kind
fieldAffectsData(field) == "name" \in DOMAIN field /\ field.type \notin LayoutTypes

\* fields/config/types.ts
tabHasName(tab) == "name" \in DOMAIN tab

\* Boolean(field?.admin && field?.admin?.condition)
IsConditional(field) == "admin" \in DOMAIN field /\ "condition" \in DOMAIN field.admin

\* 'required' in field && field.required === true
IsMarkedRequired(field) == "required" \in DOMAIN field /\ field.required = TRUE

\* a requirement that looks at the field alone, never at its children
OnlyMarkedRequired(field) ==
  ~IsConditional(field) /\ fieldAffectsData(field) /\ IsMarkedRequired(field)

RECURSIVE fieldIsRequired(_)
fieldIsRequired(field) ==
  IF IsConditional(field) THEN FALSE
  ELSE IF fieldAffectsData(field) /\ IsMarkedRequired(field) THEN TRUE
  ELSE IF "fields" \in DOMAIN field /\ field.type # "array"
    THEN \E i \in 1..Len(field.fields) : fieldIsRequired(field.fields[i])
  ELSE IF field.type = "tabs"
    THEN \E j \in 1..Len(field.tabs) :
           /\ "name" \in DOMAIN field.tabs[j]
           /\ \E i \in 1..Len(field.tabs[j].fields) : fieldIsRequired(field.tabs[j].fields[i])
  ELSE FALSE

\* the enum made of the labels of the options given as objects
OptionLabelEnums(options) ==
  [i \in 1..Len(options) |->
     IF "label" \in DOMAIN options[i] THEN options[i].label ELSE options[i].string]

buildOptionEnums(options) ==
  [i \in 1..Len(options) |->
     IF "value" \in DOMAIN options[i] THEN options[i].value ELSE options[i].string]

\* a type that never admits null
NeverNullable(fieldType, isRequired) == <<fieldType>>

withNullableJSONSchemaType(fieldType, isRequired) ==
  IF isRequired THEN <<fieldType>> ELSE <<fieldType, "null">>

\* utilities/getCollectionIDFieldTypes.ts: 'number' for a collection with a
\* custom number id, 'string' for one with a custom text id, and the default
\* ID type ('number' or 'string') for the others
getCollectionIDFieldTypes(defaultIDType) ==
  [slug \in Collections |->
     IF "customIDType" \in DOMAIN PayloadCollections[slug]
       THEN IF PayloadCollections[slug].customIDType = "number" THEN "number" ELSE "string"
       ELSE IF defaultIDType = "number" THEN "number" ELSE "string"]

\* { $ref: `#/definitions/${name}` }
Ref(name) == "$ref" :> ("#/definitions/" \o name)

HasMany(field) == "hasMany" \in DOMAIN field /\ field.hasMany = TRUE
HasInterfaceName(field) == "interfaceName" \in DOMAIN field /\ field.interfaceName # ""

\* lines 186-219: text, textarea, code, email, date, number, checkbox
ScalarSchema(field, isRequired) ==
  CASE field.type = "text" ->
         IF HasMany(field)
           THEN [type |-> withNullableJSONSchemaType("array", isRequired),
                 items |-> [type |-> <<"string">>]]
           ELSE [type |-> withNullableJSONSchemaType("string", isRequired)]
    [] field.type \in {"textarea", "code", "email", "date"} ->
         [type |-> withNullableJSONSchemaType("string", isRequired)]
    [] field.type = "number" ->
         IF HasMany(field)
           THEN [type |-> withNullableJSONSchemaType("array", isRequired),
                 items |-> [type |-> <<"number">>]]
           ELSE [type |-> withNullableJSONSchemaType("number", isRequired)]
    [] field.type = "checkbox" ->
         [type |-> withNullableJSONSchemaType("boolean", isRequired)]

\* lines 221-226, without field.jsonSchema
JsonSchema == [type |-> <<"object", "array", "string", "number", "boolean", "null">>]

\* lines 256-284: radio and select
EnumSchema(field, isRequired) ==
  IF field.type = "select" /\ HasMany(field)
    THEN [type |-> withNullableJSONSchemaType("array", isRequired),
          items |-> [type |-> <<"string">>, enum |-> buildOptionEnums(field.options)]]
    ELSE [type |-> withNullableJSONSchemaType("string", isRequired),
          enum |-> buildOptionEnums(field.options)]

\* a point whose type admits null whatever the field says
PointSchemaAlwaysNullable(isRequired) ==
  [type |-> <<"array", "null">>,
   items |-> << [type |-> <<"number">>], [type |-> <<"number">>] >>,
   maxItems |-> 2, minItems |-> 2]

\* lines 286-301
PointSchema(isRequired) ==
  [type |-> withNullableJSONSchemaType("array", isRequired),
   items |-> << [type |-> <<"number">>], [type |-> <<"number">>] >>,
   maxItems |-> 2, minItems |-> 2]

\* oneOf: [{ type: <id type> }, { $ref }]
IdOrRef(idType, relation) == << [type |-> idType], Ref(relation) >>

\* lines 303-325
JoinSchema(collectionIDFieldTypes, field) ==
  [type |-> withNullableJSONSchemaType("object", FALSE),
   additionalProperties |-> FALSE,
   properties |->
     << [k |-> "docs",
         v |-> [type |-> withNullableJSONSchemaType("array", FALSE),
                items |-> [oneOf |-> IdOrRef(<<collectionIDFieldTypes[field.collection]>>,
                                             field.collection)]]],
        [k |-> "hasNextPage",
         v |-> [type |-> withNullableJSONSchemaType("boolean", FALSE)]] >>]

\* lines 336-354 and 361-380: one alternative of a polymorphic relationship
RelationOption(collectionIDFieldTypes, relation, type) ==
  [type |-> type,
   additionalProperties |-> FALSE,
   properties |->
     << [k |-> "relationTo", v |-> [const |-> relation]],
        [k |-> "value",
         v |-> [oneOf |-> IdOrRef(<<collectionIDFieldTypes[relation]>>, relation)]] >>,
   required |-> <<"value", "relationTo">>]

\* lines 327-415: upload and relationship
RelationshipSchema(collectionIDFieldTypes, field, isRequired) ==
  IF field.relationTo.isArray
    THEN IF HasMany(field)
      THEN [type |-> withNullableJSONSchemaType("array", isRequired),
            items |-> [oneOf |-> [i \in 1..Len(field.relationTo.to) |->
                         RelationOption(collectionIDFieldTypes, field.relationTo.to[i],
                                        <<"object">>)]]]
      ELSE [oneOf |-> [i \in 1..Len(field.relationTo.to) |->
                         RelationOption(collectionIDFieldTypes, field.relationTo.to[i],
                                        withNullableJSONSchemaType("object", isRequired))]]
  ELSE IF HasMany(field)
    THEN [type |-> withNullableJSONSchemaType("array", isRequired),
          items |-> [oneOf |-> IdOrRef(<<collectionIDFieldTypes[field.relationTo.to[1]]>>,
                                       field.relationTo.to[1])]]
  ELSE [oneOf |-> IdOrRef(withNullableJSONSchemaType(
                            collectionIDFieldTypes[field.relationTo.to[1]], isRequired),
                          field.relationTo.to[1])]

\* new Error('Attempted to access unsanitized rich text editor.')
UnsanitizedEditorError == "Attempted to access unsanitized rich text editor."

\* a richText field that never makes the derivation fail
RichTextErrorNone(field) == "none"

\* lines 229-234: what the richText case throws, "none" when it does not
RichTextError(field) ==
  IF "editor" \notin DOMAIN field THEN "MissingEditorProp"
  ELSE IF field.editor = "function" THEN UnsanitizedEditorError
  ELSE "none"

\* lines 243-251, without editor.outputSchema
RichTextSchema(isRequired) ==
  [type |-> withNullableJSONSchemaType("array", isRequired),
   items |-> [type |-> <<"object">>]]

(***************************************************************************)
(* fieldsToJSONSchema, lines 154-581.  The reduce over the fields carries  *)
(* st = [fieldSchemas, requiredFieldNames, rs, error]: the Map of the      *)
(* properties so far, the Set of the required names, the registry, and the *)
(* error thrown, "none" while nothing was thrown.  A throw ends the whole  *)
(* derivation; the writes already made to the caller's registry stay.      *)
(*                                                                         *)
(* rs = [interfaceNameDefinitions, sets]: the caller's Map, and the list   *)
(* of the interfaceNameDefinitions.set calls made so far, each with the    *)
(* field (or block) that made it and the schema emitted in its place.      *)
(***************************************************************************)
\* interfaceNameDefinitions.set(name, fieldSchema), lines 448, 479 and 552
RegistrySet(rs, name, fieldSchema, field, emitted) ==
  [interfaceNameDefinitions |-> MapSet(rs.interfaceNameDefinitions, name, fieldSchema),
   sets |-> Append(rs.sets, [interfaceName |-> name, schema |-> fieldSchema,
                             field |-> field, emitted |-> emitted])]

\* lines 173 and 577: nothing derived yet
ReduceStart(rs) ==
  [fieldSchemas |-> <<>>, requiredFieldNames |-> <<>>, rs |-> rs, error |-> "none"]

\* lines 175-580: the value returned, or the error thrown
Reduced(st) ==
  [error |-> st.error, properties |-> st.fieldSchemas,
   required |-> st.requiredFieldNames, rs |-> st.rs]

\* a throw inside a nested derivation leaves the enclosing one too
Thrown(st, error, rs) == [st EXCEPT !.error = error, !.rs = rs]

\* lines 572-574
FieldSet(field, st, fieldSchema) ==
  IF fieldAffectsData(field)
    THEN [st EXCEPT !.fieldSchemas = MapSet(@, field.name, fieldSchema)]
    ELSE st

\* { type: 'object', additionalProperties: false, ...childSchema }
ObjectSchema(childSchema) ==
  [type |-> <<"object">>, additionalProperties |-> FALSE,
   properties |-> childSchema.properties, required |-> childSchema.required]

\* lines 435-455: one block, derived as childSchema
BlockMapped(block, acc, childSchema, blockSchema) ==
  IF childSchema.error # "none"
    THEN [acc EXCEPT !.error = childSchema.error, !.rs = childSchema.rs]
  ELSE IF HasInterfaceName(block)
    THEN [acc EXCEPT !.oneOf = Append(@, Ref(block.interfaceName)),
                     !.rs = RegistrySet(childSchema.rs, block.interfaceName, blockSchema,
                                        block, Ref(block.interfaceName))]
  ELSE [acc EXCEPT !.oneOf = Append(@, blockSchema), !.rs = childSchema.rs]

\* lines 435-445
BlockSchema(block, childSchema) ==
  [type |-> <<"object">>, additionalProperties |-> FALSE,
   properties |-> MapSet(childSchema.properties, "blockType", [const |-> block.slug]),
   required |-> <<"blockType">> \o childSchema.required]

\* lines 423-460: the blocks field, its blocks mapped as acc
BlocksDone(field, isRequired, st, acc) ==
  IF acc.error # "none" THEN Thrown(st, acc.error, acc.rs)
  ELSE FieldSet(field, [st EXCEPT !.rs = acc.rs],
                [type |-> withNullableJSONSchemaType("array", isRequired),
                 items |-> IF Len(field.blocks) > 0 THEN [oneOf |-> acc.oneOf] ELSE <<>>])

\* lines 478-484 and 551-557: register the schema under the interface name and
\* emit a $ref in its place
Registered(field, st, rs, fieldSchema) ==
  IF HasInterfaceName(field)
    THEN FieldSet(field,
                  [st EXCEPT !.rs = RegistrySet(rs, field.interfaceName, fieldSchema,
                                                field, Ref(field.interfaceName))],
                  Ref(field.interfaceName))
    ELSE FieldSet(field, [st EXCEPT !.rs = rs], fieldSchema)

\* lines 463-486
ArrayDone(field, isRequired, st, childSchema) ==
  IF childSchema.error # "none" THEN Thrown(st, childSchema.error, childSchema.rs)
  ELSE Registered(field, st, childSchema.rs,
                  [type |-> withNullableJSONSchemaType("array", isRequired),
                   items |-> ObjectSchema(childSchema)])

\* lines 539-559
GroupDone(field, st, childSchema) ==
  IF childSchema.error # "none" THEN Thrown(st, childSchema.error, childSchema.rs)
  ELSE Registered(field, st, childSchema.rs, ObjectSchema(childSchema))

\* a merge that takes the child's properties and forgets its required names
MergedPropertiesOnly(st, childSchema) ==
  IF childSchema.error # "none" THEN Thrown(st, childSchema.error, childSchema.rs)
  ELSE [st EXCEPT !.fieldSchemas = MapSetAll(@, childSchema.properties),
                  !.rs = childSchema.rs]

\* lines 496-501 and 528-533: the child's properties and required names join
\* those of this level
Merged(st, childSchema) ==
  IF childSchema.error # "none" THEN Thrown(st, childSchema.error, childSchema.rs)
  ELSE [st EXCEPT !.fieldSchemas = MapSetAll(@, childSchema.properties),
                  !.requiredFieldNames = SetAddAll(@, childSchema.required),
                  !.rs = childSchema.rs]

\* lines 513-534: one tab, derived as childSchema
TabDone(tab, st, childSchema) ==
  IF childSchema.error # "none" THEN Thrown(st, childSchema.error, childSchema.rs)
  ELSE IF tabHasName(tab)
    THEN [st EXCEPT !.fieldSchemas = MapSet(@, tab.name, ObjectSchema(childSchema)),
                    !.requiredFieldNames =
                       IF \E i \in 1..Len(tab.fields) : fieldIsRequired(tab.fields[i])
                         THEN SetAdd(@, tab.name) ELSE @,
                    !.rs = childSchema.rs]
  ELSE Merged(st, childSchema)

RECURSIVE fieldsToJSONSchema(_, _, _)
RECURSIVE ReduceFields(_, _, _, _)
RECURSIVE BlocksMapped(_, _, _, _)
RECURSIVE TabsEach(_, _, _, _)

\* lines 185-564: the switch on field.type
FieldCase(collectionIDFieldTypes, field, isRequired, st) ==
  CASE field.type \in {"text", "textarea", "code", "email", "date", "number", "checkbox"} ->
         FieldSet(field, st, ScalarSchema(field, isRequired))
    [] field.type = "json" -> FieldSet(field, st, JsonSchema)
    [] field.type = "richText" ->
         IF RichTextError(field) # "none"
           THEN Thrown(st, RichTextError(field), st.rs)
           ELSE FieldSet(field, st, RichTextSchema(isRequired))
    [] field.type \in {"radio", "select"} ->
         FieldSet(field, st, EnumSchema(field, isRequired))
    [] field.type = "point" -> FieldSet(field, st, PointSchema(isRequired))
    [] field.type = "join" -> FieldSet(field, st, JoinSchema(collectionIDFieldTypes, field))
    [] field.type \in {"upload", "relationship"} ->
         FieldSet(field, st, RelationshipSchema(collectionIDFieldTypes, field, isRequired))
    [] field.type = "blocks" ->
         BlocksDone(field, isRequired, st,
                    BlocksMapped(collectionIDFieldTypes, field.blocks, 1,
                                 [oneOf |-> <<>>, rs |-> st.rs, error |-> "none"]))
    [] field.type = "array" ->
         ArrayDone(field, isRequired, st,
                   fieldsToJSONSchema(collectionIDFieldTypes, field.fields, st.rs))
    [] field.type \in {"row", "collapsible"} ->
         Merged(st, fieldsToJSONSchema(collectionIDFieldTypes, field.fields, st.rs))
    [] field.type = "tabs" -> TabsEach(collectionIDFieldTypes, field.tabs, 1, st)
    [] field.type = "group" ->
         GroupDone(field, st, fieldsToJSONSchema(collectionIDFieldTypes, field.fields, st.rs))
    [] OTHER -> st

\* lines 178-181
FieldReduced(collectionIDFieldTypes, field, isRequired, st) ==
  FieldCase(collectionIDFieldTypes, field, isRequired,
            IF isRequired
              THEN [st EXCEPT !.requiredFieldNames = SetAdd(@, field.name)]
              ELSE st)

\* lines 177-577: fields.reduce, from the i-th field on
ReduceFields(collectionIDFieldTypes, fs, i, st) ==
  IF i > Len(fs) \/ st.error # "none" THEN st
  ELSE ReduceFields(collectionIDFieldTypes, fs, i + 1,
                    FieldReduced(collectionIDFieldTypes, fs[i],
                                 fieldAffectsData(fs[i]) /\ fieldIsRequired(fs[i]), st))

\* lines 427-456: field.blocks.map, from the j-th block on
BlockDerived(block, acc, childSchema) ==
  BlockMapped(block, acc, childSchema, BlockSchema(block, childSchema))

BlocksMapped(collectionIDFieldTypes, blocks, j, acc) ==
  IF j > Len(blocks) \/ acc.error # "none" THEN acc
  ELSE BlocksMapped(collectionIDFieldTypes, blocks, j + 1,
                    BlockDerived(blocks[j], acc,
                                 fieldsToJSONSchema(collectionIDFieldTypes, blocks[j].fields,
                                                    acc.rs)))

\* lines 506-535: field.tabs.forEach, from the j-th tab on
TabsEach(collectionIDFieldTypes, tabs, j, st) ==
  IF j > Len(tabs) \/ st.error # "none" THEN st
  ELSE TabsEach(collectionIDFieldTypes, tabs, j + 1,
                TabDone(tabs[j], st,
                        fieldsToJSONSchema(collectionIDFieldTypes, tabs[j].fields, st.rs)))

fieldsToJSONSchema(collectionIDFieldTypes, fs, rs) ==
  Reduced(ReduceFields(collectionIDFieldTypes, fs, 1, ReduceStart(rs)))

(***************************************************************************)
(* entityToJSONSchema and configToJSONSchema.  The configuration is made   *)
(* of objects that are shared by reference: the heap keeps the entity      *)
(* objects, the arrays that are their field lists and the field objects,   *)
(* each kind at its own addresses (1, 2, ...).  An entity object holds the *)
(* address of its fields array, and the array the addresses of its fields. *)
(* What lies inside a field object is only read here, and is kept by value.*)
(***************************************************************************)
EmptyHeap == [entities |-> <<>>, arrays |-> <<>>, objects |-> <<>>]

\* the field list of the entity at address e, read through the heap
FieldsOf(h, e) ==
  [i \in 1..Len(h.arrays[h.entities[e].fields]) |->
     h.objects[h.arrays[h.entities[e].fields][i]]]

\* the entity at address e as a value
EntityValue(h, e) == [h.entities[e] EXCEPT !.fields = FieldsOf(h, e)]

\* a new entity object with a new fields array of new field objects
AllocEntity(h, entity) ==
  [heap |-> [entities |-> Append(h.entities,
                                 [entity EXCEPT !.fields = Len(h.arrays) + 1]),
             arrays   |-> Append(h.arrays,
                                 [i \in 1..Len(entity.fields) |-> Len(h.objects) + i]),
             objects  |-> h.objects \o entity.fields],
   ref  |-> Len(h.entities) + 1]

\* utilities/deepCopyObject.ts: a copy that shares no object with the original
deepCopyObject(h, e) == AllocEntity(h, EntityValue(h, e))

\* the given entity itself, not a copy
SameEntity(h, incomingEntity) == [heap |-> h, ref |-> incomingEntity]

\* line 594: const entity = deepCopyObject(incomingEntity)
EntityCopy(h, incomingEntity) == deepCopyObject(h, incomingEntity)

\* utilities/formatLabels.ts and pluralize: singular(toWords(slug, true))
singularWords(slug) ==
  CASE slug = "posts" -> "Post"
    [] slug = "users" -> "User"
    [] slug = "settings" -> "Setting"
    [] OTHER -> slug

\* lines 595-597
TitleOf(entity) ==
  IF /\ "typescript" \in DOMAIN entity
     /\ "interface" \in DOMAIN entity.typescript
     /\ entity.typescript.interface # ""
    THEN entity.typescript.interface
    ELSE singularWords(entity.slug)

\* line 599
idField(defaultIDType) == [name |-> "id", type |-> defaultIDType, required |-> TRUE]

\* lines 600-602: the positions of the fields that entity.fields.find accepts
CustomIdPositions(fs) ==
  {i \in 1..Len(fs) : fieldAffectsData(fs[i]) /\ fs[i].name = "id"}

\* line 605: customIdField.required = true, on the field object at address a
IdRequired(h, a) == [h EXCEPT !.objects[a] = [required |-> TRUE] @@ @]

\* line 607: entity.fields.unshift(idField), on the array at address a
IdUnshifted(h, a, defaultIDType) ==
  [h EXCEPT !.objects = Append(@, idField(defaultIDType)),
            !.arrays[a] = <<Len(h.objects) + 1>> \o @]

\* lines 600-608, with the position of the custom id field (0: none)
WithCustomId(h, e, defaultIDType, fs, i) ==
  IF i # 0 /\ fs[i].type \notin {"group", "tab"}
    THEN IdRequired(h, h.arrays[h.entities[e].fields][i])
    ELSE IdUnshifted(h, h.entities[e].fields, defaultIDType)

\* lines 599-608
WithIdField(h, e, defaultIDType) ==
  WithCustomId(h, e, defaultIDType, FieldsOf(h, e),
               IF CustomIdPositions(FieldsOf(h, e)) = {} THEN 0
               ELSE CHOOSE i \in CustomIdPositions(FieldsOf(h, e)) :
                      \A j \in CustomIdPositions(FieldsOf(h, e)) : i <= j)

\* line 613
IsTimestampField(field) ==
  fieldAffectsData(field) /\ field.name \in {"createdAt", "updatedAt"}

\* lines 612-620: entity.fields = entity.fields.map(...), a new array in which
\* each timestamp field is a new object and every other field the same object
TimestampsMapped(h, e, old, fs, marked) ==
  [h EXCEPT
     !.objects = @ \o [k \in 1..Cardinality(marked) |->
                         [required |-> TRUE]
                           @@ fs[CHOOSE i \in marked :
                                   Cardinality({j \in marked : j <= i}) = k]],
     !.arrays = Append(@, [i \in 1..Len(fs) |->
                             IF i \in marked
                               THEN Len(h.objects) + Cardinality({j \in marked : j <= i})
                               ELSE old[i]]),
     !.entities[e].fields = Len(h.arrays) + 1]

\* lines 611-621
WithTimestamps(h, e) ==
  IF "timestamps" \in DOMAIN h.entities[e] /\ h.entities[e].timestamps # FALSE
    THEN TimestampsMapped(h, e, h.arrays[h.entities[e].fields], FieldsOf(h, e),
                          {i \in 1..Len(FieldsOf(h, e)) : IsTimestampField(FieldsOf(h, e)[i])})
    ELSE h

\* lines 623-628; a collection without auth has no auth key
WithPassword(h, e) ==
  IF /\ "auth" \in DOMAIN h.entities[e]
     /\ ~("disableLocalStrategy" \in DOMAIN h.entities[e].auth
          /\ h.entities[e].auth.disableLocalStrategy)
    THEN [h EXCEPT !.objects = Append(@, [name |-> "password", type |-> "text"]),
                   !.arrays[h.entities[e].fields] = Append(@, Len(h.objects) + 1)]
    ELSE h

\* lines 630-635: the schema returned, or the error thrown by the derivation
EntityReturned(h, e, r) ==
  [heap |-> h, error |-> r.error, rs |-> r.rs,
   schema |-> IF r.error # "none" THEN <<>>
              ELSE [type |-> <<"object">>, additionalProperties |-> FALSE,
                    title |-> TitleOf(h.entities[e]),
                    properties |-> r.properties, required |-> r.required]]

\* lines 599-635, on the entity that line 594 made
EntityDerived(c, rs, defaultIDType, collectionIDFieldTypes) ==
  EntityReturned(
    WithPassword(WithTimestamps(WithIdField(c.heap, c.ref, defaultIDType), c.ref), c.ref),
    c.ref,
    fieldsToJSONSchema(
      collectionIDFieldTypes,
      FieldsOf(WithPassword(WithTimestamps(WithIdField(c.heap, c.ref, defaultIDType),
                                           c.ref), c.ref), c.ref),
      rs))

entityToJSONSchema(h, incomingEntity, rs, defaultIDType, collectionIDFieldTypes) ==
  EntityDerived(EntityCopy(h, incomingEntity), rs, defaultIDType, collectionIDFieldTypes)

\* lines 960-969: one step of the reduce over [...config.globals, ...config.collections]
EntityReduced(acc, slug, r) ==
  [heap |-> r.heap, error |-> r.error, rs |-> r.rs, jobs |-> acc.jobs,
   definitions |-> acc.definitions,
   entityDefinitions |-> IF r.error # "none" THEN acc.entityDefinitions
                         ELSE MapSet(acc.entityDefinitions, slug, r.schema)]

\* lines 957-969: the reduce, from the i-th entity on
RECURSIVE EntitiesReduced(_, _, _, _, _)
EntitiesReduced(refs, i, acc, defaultIDType, collectionIDFieldTypes) ==
  IF i > Len(refs) \/ acc.error # "none" THEN acc
  ELSE EntitiesReduced(refs, i + 1,
                       EntityReduced(acc, acc.heap.entities[refs[i]].slug,
                                     entityToJSONSchema(acc.heap, refs[i], acc.rs,
                                                        defaultIDType,
                                                        collectionIDFieldTypes)),
                       defaultIDType, collectionIDFieldTypes)

(***************************************************************************)
(* generateJobsSchemas, lines 796-940.  A jobs configuration is a record   *)
(* whose keys tasks and workflows may be missing; a task is [slug,         *)
(* inputSchema?, outputSchema?], a workflow [slug, inputSchema?].  The     *)
(* loops carry st = [error, definitions, rs].                              *)
(***************************************************************************)
\* x?.[key]?.length
HasLength(x, key) == key \in DOMAIN x /\ Len(x[key]) > 0

\* lines 816-823 and the like: definitions.set(name, the full schema of r)
JobDefined(st, name, r) ==
  IF r.error # "none" THEN [st EXCEPT !.error = r.error, !.rs = r.rs]
  ELSE [st EXCEPT !.definitions = MapSet(@, name, ObjectSchema(r)), !.rs = r.rs]

\* lines 808-824, 825-841, 879-895: the schema of one side of a task or workflow
JobSide(collectionIDFieldTypes, job, key, name, st) ==
  IF st.error = "none" /\ HasLength(job, key)
    THEN JobDefined(st, name, fieldsToJSONSchema(collectionIDFieldTypes, job[key], st.rs))
    ELSE st

\* lines 807-842: for (const task of jobsConfig.tasks), from the i-th on
RECURSIVE TasksEach(_, _, _, _)
TasksEach(collectionIDFieldTypes, tasks, i, st) ==
  IF i > Len(tasks) \/ st.error # "none" THEN st
  ELSE TasksEach(collectionIDFieldTypes, tasks, i + 1,
                 JobSide(collectionIDFieldTypes, tasks[i], "outputSchema",
                         "Task" \o tasks[i].slug \o "Output",
                         JobSide(collectionIDFieldTypes, tasks[i], "inputSchema",
                                 "Task" \o tasks[i].slug \o "Input", st)))

\* lines 849-871: the property of one task
TaskProperty(task) ==
  [type |-> <<"object">>, additionalProperties |-> FALSE,
   properties |->
     << [k |-> "input",
         v |-> IF HasLength(task, "inputSchema")
                 THEN Ref("Task" \o task.slug \o "Input") ELSE <<>>] >>
     \o (IF HasLength(task, "outputSchema")
           THEN << [k |-> "output", v |-> Ref("Task" \o task.slug \o "Output")] >>
           ELSE <<>>),
   required |-> <<"input", "output">>
                  \o (IF HasLength(task, "inputSchema") THEN <<"input">> ELSE <<>>)
                  \o (IF HasLength(task, "outputSchema") THEN <<"output">> ELSE <<>>)]

\* lines 844-875: properties.tasks
TasksProperty(tasks) ==
  [type |-> <<"object">>, additionalProperties |-> FALSE,
   properties |-> MapSetAll(<<>>, [i \in 1..Len(tasks) |->
                                     [k |-> tasks[i].slug, v |-> TaskProperty(tasks[i])]]),
   required |-> [i \in 1..Len(tasks) |-> tasks[i].slug]]

\* lines 902-918: the property of one workflow
WorkflowProperty(workflow) ==
  [type |-> <<"object">>, additionalProperties |-> FALSE,
   properties |->
     << [k |-> "input",
         v |-> IF HasLength(workflow, "inputSchema")
                 THEN Ref("Workflow" \o workflow.slug \o "Input") ELSE <<>>] >>,
   required |-> <<"input">>
                  \o (IF HasLength(workflow, "inputSchema") THEN <<"input">> ELSE <<>>)]

\* lines 897-923: properties.workflows; required is read from jobsConfig.tasks
WorkflowsProperty(jobsConfig) ==
  [type |-> <<"object">>, additionalProperties |-> FALSE,
   properties |-> MapSetAll(<<>>, [i \in 1..Len(jobsConfig.workflows) |->
                                     [k |-> jobsConfig.workflows[i].slug,
                                      v |-> WorkflowProperty(jobsConfig.workflows[i])]]),
   required |-> [i \in 1..Len(jobsConfig.tasks) |-> jobsConfig.tasks[i].slug]]

\* lines 897-923 in one iteration: jobsConfig.tasks.map throws a TypeError
\* when the configuration has no tasks
WorkflowsAssigned(jobsConfig, st) ==
  IF st.error # "none" THEN st
  ELSE IF "tasks" \notin DOMAIN jobsConfig THEN [st EXCEPT !.error = "TypeError"]
  ELSE [st EXCEPT !.workflows = WorkflowsProperty(jobsConfig)]

\* lines 878-924: for (const workflow of jobsConfig.workflows), from the i-th on
RECURSIVE WorkflowsEach(_, _, _, _)
WorkflowsEach(collectionIDFieldTypes, jobsConfig, i, st) ==
  IF i > Len(jobsConfig.workflows) \/ st.error # "none" THEN st
  ELSE WorkflowsEach(collectionIDFieldTypes, jobsConfig, i + 1,
                     WorkflowsAssigned(jobsConfig,
                       JobSide(collectionIDFieldTypes, jobsConfig.workflows[i],
                               "inputSchema",
                               "Workflow" \o jobsConfig.workflows[i].slug \o "Input", st)))

\* lines 806-876: the tasks
JobsTasks(collectionIDFieldTypes, jobsConfig, st) ==
  IF HasLength(jobsConfig, "tasks")
    THEN [TasksEach(collectionIDFieldTypes, jobsConfig.tasks, 1, st)
            EXCEPT !.tasks = TasksProperty(jobsConfig.tasks)]
    ELSE st

\* lines 877-925: the workflows
JobsWorkflows(collectionIDFieldTypes, jobsConfig, st) ==
  IF st.error = "none" /\ HasLength(jobsConfig, "workflows")
    THEN WorkflowsEach(collectionIDFieldTypes, jobsConfig, 1, st)
    ELSE st

\* lines 927-930: what is returned, or the error thrown
JobsReturned(st) ==
  [error |-> st.error, rs |-> st.rs, definitions |-> st.definitions,
   properties |-> [tasks |-> st.tasks, workflows |-> st.workflows]]

generateJobsSchemas(jobsConfig, rs, collectionIDFieldTypes) ==
  JobsReturned(
    JobsWorkflows(collectionIDFieldTypes, jobsConfig,
      JobsTasks(collectionIDFieldTypes, jobsConfig,
                [error |-> "none", rs |-> rs, definitions |-> <<>>,
                 tasks |-> <<>>, workflows |-> <<>>])))

\* lines 1010-1017: jsonSchema.properties.jobs
JobsProperty(properties) ==
  [type |-> <<"object">>, additionalProperties |-> FALSE,
   properties |-> properties, required |-> <<"tasks">>]

(***************************************************************************)
(* The auth operations of a collection, lines 638-776.  loginWithUsername  *)
(* is a record of flags, each possibly missing; a collection without it    *)
(* logs in by email.                                                       *)
(***************************************************************************)
\* lines 638-641
fieldType == [type |-> <<"string">>, required |-> FALSE]

\* an object schema whose properties are the given names, each a fieldType
AuthFields(names, required) ==
  [additionalProperties |-> FALSE,
   properties |-> [i \in 1..Len(names) |-> [k |-> names[i], v |-> fieldType]],
   required |-> required]

OneOfAuthFields(alternatives) ==
  [additionalProperties |-> FALSE, oneOf |-> alternatives]

\* loginWithUsername.flag, read as a condition
LoginFlag(loginWithUsername, flag) ==
  flag \in DOMAIN loginWithUsername /\ loginWithUsername[flag]

\* lines 683-707: case 'register'
RegisterFields(loginWithUsername) ==
  AuthFields(
    <<"password", "username">>
      \o (IF LoginFlag(loginWithUsername, "requireEmail")
             \/ LoginFlag(loginWithUsername, "allowEmailLogin")
            THEN <<"email">> ELSE <<>>),
    <<"password">>
      \o (IF LoginFlag(loginWithUsername, "requireEmail") THEN <<"email">> ELSE <<>>)
      \o (IF LoginFlag(loginWithUsername, "requireUsername") THEN <<"username">> ELSE <<>>))

\* lines 642-746; auth is the collection's auth object
generateAuthFieldTypes(type, auth) ==
  IF "loginWithUsername" \notin DOMAIN auth
    THEN AuthFields(<<"email", "password">>, <<"email", "password">>)
  ELSE IF type = "login"
    THEN IF LoginFlag(auth.loginWithUsername, "allowEmailLogin")
           THEN OneOfAuthFields(<< AuthFields(<<"email", "password">>, <<"email", "password">>),
                                   AuthFields(<<"password", "username">>,
                                              <<"username", "password">>) >>)
           ELSE AuthFields(<<"password", "username">>, <<"username", "password">>)
  ELSE IF type = "register"
    THEN RegisterFields(auth.loginWithUsername)
  ELSE IF LoginFlag(auth.loginWithUsername, "allowEmailLogin")
    THEN OneOfAuthFields(<< AuthFields(<<"email">>, <<"email">>),
                            AuthFields(<<"username">>, <<"username">>) >>)
  ELSE AuthFields(<<"username">>, <<"username">>)

\* lines 748-776
authCollectionToOperationsJSONSchema(collection) ==
  [type |-> <<"object">>, additionalProperties |-> FALSE,
   properties |->
     << [k |-> "forgotPassword", v |-> generateAuthFieldTypes("forgotOrUnlock", collection.auth)],
        [k |-> "login", v |-> generateAuthFieldTypes("login", collection.auth)],
        [k |-> "registerFirstUser", v |-> generateAuthFieldTypes("register", collection.auth)],
        [k |-> "unlock", v |-> generateAuthFieldTypes("forgotOrUnlock", collection.auth)] >>,
   required |-> <<"forgotPassword", "login", "registerFirstUser", "unlock">>,
   title |-> singularWords(collection.slug) \o "AuthOperations"]

\* lines 971-979: the value of the key auth, from the i-th collection on
RECURSIVE authOperationDefinitions(_, _, _, _)
authOperationDefinitions(h, collections, i, acc) ==
  IF i > Len(collections) THEN acc
  ELSE authOperationDefinitions(
         h, collections, i + 1,
         IF "auth" \in DOMAIN h.entities[collections[i]]
           THEN MapSet(acc, h.entities[collections[i]].slug,
                       authCollectionToOperationsJSONSchema(h.entities[collections[i]]))
           ELSE acc)

\* lines 987-991: the entity definitions, then the interface definitions,
\* then the auth operations under the key auth
JsonSchemaDefinitions(entityDefinitions, interfaceNameDefinitions, auth) ==
  MapSet(MapSetAll(entityDefinitions, interfaceNameDefinitions), "auth", auth)

\* lines 981-983 and 985-1017, j what generateJobsSchemas did
ConfigWithJobs(acc, auth, j) ==
  IF j.error # "none"
    THEN [acc EXCEPT !.error = j.error, !.rs = j.rs]
    ELSE [acc EXCEPT !.rs = j.rs,
                     !.definitions =
                       MapSetAll(JsonSchemaDefinitions(acc.entityDefinitions,
                                                       j.rs.interfaceNameDefinitions, auth),
                                 j.definitions),
                     !.jobs = JobsProperty(j.properties)]

\* lines 971-1017: config.jobs ? generateJobsSchemas(...) : {}, and the
\* definitions of the schema returned
ConfigJobs(cfg, acc, auth, collectionIDFieldTypes) ==
  IF acc.error # "none" THEN acc
  ELSE IF "jobs" \in DOMAIN cfg
    THEN ConfigWithJobs(acc, auth,
                        generateJobsSchemas(cfg.jobs, acc.rs, collectionIDFieldTypes))
  ELSE [acc EXCEPT !.definitions =
                     JsonSchemaDefinitions(acc.entityDefinitions,
                                           acc.rs.interfaceNameDefinitions, auth)]

\* lines 950-1017: a fresh interfaceNameDefinitions Map, the entity
\* definitions of every global and collection, the auth operations of the
\* auth collections, and the jobs schemas
configToJSONSchema(h, cfg, defaultIDType) ==
  ConfigJobs(cfg,
             EntitiesReduced(cfg.globals \o cfg.collections, 1,
                             [heap |-> h, error |-> "none", entityDefinitions |-> <<>>,
                              definitions |-> <<>>, jobs |-> <<>>,
                              rs |-> [interfaceNameDefinitions |-> <<>>, sets |-> <<>>]],
                             defaultIDType, getCollectionIDFieldTypes(defaultIDType)),
             authOperationDefinitions(h, cfg.collections, 1, <<>>),
             getCollectionIDFieldTypes(defaultIDType))

(***************************************************************************)
(* The inputs of the translator: the Where trees a request may carry.      *)
(***************************************************************************)
PathInputs ==
  { <<"id">>, <<"_id">>, <<"title">>, <<"article">>, <<"owner">>,
    <<"image">>, <<"cover">>,
    <<"meta", ".", "slug">>,
    <<"article", ".", "id">>, <<"article", "__", "id">>,
    <<"article", ".", "title">>,
    <<"article", ".", "author", ".", "name">>,
    <<"article", "__", "author", "__", "id">> }

OperatorInputs == {"equals", "not_equals", "like", "near", "bogus_op"}

ValueInputs == { Str(<<"a">>), Str(<<HEX>>), Str(<<"1">>), Num(<<"1">>) }

\* every leaf over the paths, operators and values above
GeneralLeaves ==
  { Leaf(p, o, v) : p \in PathInputs, o \in OperatorInputs, v \in ValueInputs }

\* like on a text field, own or joined, with every string up to MaxValLen
LikeLeaves ==
  { Leaf(p, "like", Str(s)) :
      p \in { <<"title">>, <<"article", ".", "title">> }, s \in SeqsUpTo(Chars, MaxValLen) }

\* the leaves that and/or nodes are built from
SiblingLeaves ==
  { Leaf(p, o, Str(<<"a">>)) :
      p \in { <<"title">>, <<"article", ".", "title">>, <<"article", ".", "id">>,
              <<"article", ".", "author", ".", "name">>, <<"id">> },
      o \in {"equals", "bogus_op"} }

NestedLeaves ==
  { Leaf(<<"title">>, o, Str(<<"a">>)) : o \in {"equals", "bogus_op"} }

NonEmptySeqsUpTo(S, n) == SeqsUpTo(S, n) \ {<<>>}

FlatConnectors ==
  { Connector(k, cs) : k \in {"and", "or"}, cs \in NonEmptySeqsUpTo(SiblingLeaves, MaxChildren) }

InnerConnectors ==
  { Connector(k, <<l>>) : k \in {"and", "or"}, l \in NestedLeaves }

NestedConnectors ==
  { Connector(k, cs) :
      k \in {"and", "or"},
      cs \in { c \in NonEmptySeqsUpTo(NestedLeaves \cup InnerConnectors, MaxChildren) :
                 \E i \in 1..Len(c) : c[i].kind # "leaf" } }

WhereInputs == GeneralLeaves \cup LikeLeaves \cup FlatConnectors \cup NestedConnectors

\* the leaves of a Where tree, in the order they are translated
RECURSIVE LeavesOf(_)
LeavesOf(node) ==
  IF node.kind = "leaf" THEN <<node>>
  ELSE Flatten([i \in 1..Len(node.children) |-> LeavesOf(node.children[i])])

(***************************************************************************)
(* The inputs of the derivation: field lists.  A shape is a field without  *)
(* its name; NameFields names the fields of a list by their position, so   *)
(* that the names of one level never clash: "f1", "f2" at the top, "c1",   *)
(* "c2" inside an array, a group, a block or a named tab, and the name of  *)
(* the enclosing row, collapsible or unnamed tab followed by the position  *)
(* inside it.                                                              *)
(***************************************************************************)
Plain == <<>>
Required == [required |-> TRUE]
NotRequired == [required |-> FALSE]
Conditional == [admin |-> [condition |-> TRUE]]
Many == [hasMany |-> TRUE]
Named(n) == [interfaceName |-> n]

OptionInputs == << [string |-> "a"], [label |-> "B", value |-> "b"] >>

ScalarShapes ==
  { [type |-> t] @@ x :
      t \in {"text", "textarea", "code", "email", "date", "number", "checkbox"},
      x \in {Plain, Required, NotRequired, Conditional, Required @@ Conditional} }

ManyShapes ==
  { [type |-> t] @@ Many @@ x : t \in {"text", "number"}, x \in {Plain, Required} }

PointShapes ==
  { [type |-> "point"] @@ x :
      x \in {Plain, Required, NotRequired, Conditional, Required @@ Conditional} }

\* option lists: none, strings only, objects only, mixed in both orders
OptionLists ==
  { <<>>, <<[string |-> "a"], [string |-> "c"]>>, <<[label |-> "B", value |-> "b"]>>,
    OptionInputs, <<[label |-> "B", value |-> "b"], [string |-> "a"]>>,
    <<[string |-> "c"], [label |-> "B", value |-> "b"], [string |-> "a"]>> }

EnumShapes ==
  { [type |-> "select", options |-> os] @@ m @@ x :
      os \in OptionLists, m \in {Plain, Many}, x \in {Plain, Required} }
  \cup { [type |-> "radio", options |-> OptionInputs] @@ x : x \in {Plain, Required} }

RichTextShapes ==
  { [type |-> "richText"] @@ e @@ x :
      e \in {Plain, [editor |-> "function"], [editor |-> "sanitized"]},
      x \in {Plain, Required} }

RelationToInputs ==
  { [isArray |-> FALSE, to |-> <<"users">>], [isArray |-> FALSE, to |-> <<"articles">>],
    [isArray |-> TRUE, to |-> <<"articles", "users">>] }

RelationShapes ==
  { [type |-> t, relationTo |-> r] @@ m @@ x :
      t \in {"relationship", "upload"}, r \in RelationToInputs,
      m \in {Plain, Many}, x \in {Plain, Required} }

OtherShapes == { [type |-> "json"], [type |-> "join", collection |-> "users"], [type |-> "ui"] }

LeafShapes ==
  ScalarShapes \cup ManyShapes \cup PointShapes \cup EnumShapes \cup RichTextShapes
    \cup RelationShapes \cup OtherShapes

TextShape == [type |-> "text"]
NumberShape == [type |-> "number", required |-> TRUE]
NoEditorShape == [type |-> "richText"]
FunctionEditorShape == [type |-> "richText", editor |-> "function"]
SanitizedEditorShape == [type |-> "richText", editor |-> "sanitized"]

\* the child lists of the composite fields
SubLists ==
  SeqsUpTo({TextShape, NumberShape, NoEditorShape, FunctionEditorShape, SanitizedEditorShape},
           MaxSubFields)

ArrayShape(cs, n) == [type |-> "array", fields |-> cs] @@ n
GroupShape(cs, n) == [type |-> "group", fields |-> cs] @@ n
BlockShape(cs, n) == [fields |-> cs] @@ n
BlocksShape(bs) == [type |-> "blocks", blocks |-> bs]
RowShape(cs) == [type |-> "row", fields |-> cs]
TabShape(named, cs) == [named |-> named, fields |-> cs]
TabsShape(ts) == [type |-> "tabs", tabs |-> ts]

ArrayShapes ==
  { ArrayShape(cs, n) @@ x :
      cs \in SubLists, n \in {Plain, Named("Foo")}, x \in {Plain, Required} }

GroupShapes ==
  { GroupShape(cs, n) @@ x :
      cs \in SubLists, n \in {Plain, Named("Foo")}, x \in {Plain, Conditional} }

RowShapes ==
  { [type |-> t, fields |-> cs] @@ x :
      t \in {"row", "collapsible"}, cs \in SubLists, x \in {Plain, Conditional} }

BlockInputs ==
  { BlockShape(cs, n) :
      cs \in {<<TextShape>>, <<NumberShape>>, <<NoEditorShape>>},
      n \in {Plain, Named("Foo")} }

BlocksShapes ==
  { BlocksShape(bs) @@ x : bs \in SeqsUpTo(BlockInputs, MaxSubFields), x \in {Plain, Required} }

TabInputs ==
  { TabShape(named, cs) :
      named \in BOOLEAN, cs \in {<<TextShape>>, <<NumberShape>>, <<NoEditorShape>>} }

TabsShapes == { TabsShape(ts) : ts \in SeqsUpTo(TabInputs, MaxSubFields) \ {<<>>} }

\* the shapes that lists of several fields are made of: fields that share an
\* interface name, with the same shape and with different ones, at the top
\* and nested, and the three kinds of richText
SharedShapes ==
  { ArrayShape(<<TextShape>>, Named("Foo")),
    ArrayShape(<<NumberShape>>, Named("Foo")),
    ArrayShape(<<TextShape>>, Named("Bar")),
    ArrayShape(<<TextShape>>, Plain),
    ArrayShape(<<ArrayShape(<<TextShape>>, Named("Foo"))>>, Named("Foo")),
    GroupShape(<<TextShape>>, Named("Foo")),
    GroupShape(<<ArrayShape(<<TextShape>>, Named("Foo"))>>, Plain),
    BlocksShape(<<BlockShape(<<TextShape>>, Named("Foo"))>>),
    BlocksShape(<<BlockShape(<<NumberShape>>, Named("Foo"))>>),
    RowShape(<<ArrayShape(<<TextShape>>, Named("Foo"))>>),
    TabsShape(<<TabShape(FALSE, <<ArrayShape(<<NumberShape>>, Named("Foo"))>>)>>),
    NoEditorShape, FunctionEditorShape, SanitizedEditorShape,
    TextShape, [type |-> "point", required |-> TRUE] }

ShapeLists ==
  { <<s>> : s \in LeafShapes \cup ArrayShapes \cup GroupShapes \cup RowShapes
                    \cup BlocksShapes \cup TabsShapes \cup SharedShapes }
  \cup SeqsUpTo(SharedShapes, MaxFields)

RECURSIVE NameFields(_, _)
RECURSIVE NamedField(_, _)

NamedTab(tab, label) ==
  IF tab.named
    THEN [name |-> label, fields |-> NameFields(tab.fields, "c")]
    ELSE [fields |-> NameFields(tab.fields, label \o "_")]

NamedBlock(block, j) ==
  [slug |-> "b" \o ToString(j)] @@ [block EXCEPT !.fields = NameFields(block.fields, "c")]

NamedField(shape, label) ==
  CASE shape.type \in {"row", "collapsible"} ->
         [shape EXCEPT !.fields = NameFields(shape.fields, label \o "_")]
    [] shape.type = "tabs" ->
         [shape EXCEPT !.tabs = [j \in 1..Len(shape.tabs) |->
                                   NamedTab(shape.tabs[j], label \o "_" \o ToString(j))]]
    [] shape.type \in {"array", "group"} ->
         [name |-> label] @@ [shape EXCEPT !.fields = NameFields(shape.fields, "c")]
    [] shape.type = "blocks" ->
         [name |-> label]
           @@ [shape EXCEPT !.blocks = [j \in 1..Len(shape.blocks) |->
                                          NamedBlock(shape.blocks[j], j)]]
    [] OTHER -> [name |-> label] @@ shape

NameFields(shapes, prefix) ==
  [i \in 1..Len(shapes) |-> NamedField(shapes[i], prefix \o ToString(i))]

FieldsInputs == { NameFields(ss, "f") : ss \in ShapeLists }

(***************************************************************************)
(* The inputs of entityToJSONSchema and configToJSONSchema: configurations *)
(* of one or two collections and at most one global.                       *)
(***************************************************************************)
MaxCalls == 2

DateField(n) == [name |-> n, type |-> "date"]

EntityFieldInputs ==
  { << TextField("title") >>,
    << [name |-> "id", type |-> "number"], TextField("title") >>,
    << GroupField("id", <<TextField("c1")>>), TextField("title") >>,
    << TextField("title"), DateField("createdAt"), DateField("updatedAt") >>,
    << TextField("id"), DateField("createdAt") >>,
    << TextField("title"), GroupField("meta", <<TextField("c1")>>) @@ Named("Meta") >> }

TimestampInputs == { <<>>, [timestamps |-> TRUE], [timestamps |-> FALSE] }

AuthInputs ==
  { <<>>, [auth |-> [disableLocalStrategy |-> FALSE]],
    [auth |-> [disableLocalStrategy |-> TRUE]],
    [auth |-> [disableLocalStrategy |-> FALSE,
               loginWithUsername |-> [allowEmailLogin |-> TRUE, requireEmail |-> FALSE]]],
    [auth |-> [disableLocalStrategy |-> FALSE,
               loginWithUsername |-> [requireEmail |-> TRUE, requireUsername |-> TRUE]]] }

CollectionInputs ==
  { [slug |-> "posts", fields |-> fs] @@ t @@ a :
      fs \in EntityFieldInputs, t \in TimestampInputs, a \in AuthInputs }

UsersCollection ==
  [slug |-> "users", timestamps |-> TRUE, auth |-> [disableLocalStrategy |-> FALSE],
   fields |-> << TextField("name"), DateField("createdAt") >>]

GlobalInputs ==
  { [slug |-> "settings", fields |-> << TextField("title") >>],
    [slug |-> "settings", typescript |-> [interface |-> "SiteSettings"],
     fields |-> << [name |-> "id", type |-> "number"], TextField("title") >>],
    [slug |-> "settings", typescript |-> [interface |-> ""],
     fields |-> << TextField("title") >>] }

\* config.jobs: tasks and workflows, each key possibly missing
TaskInputs(slug) ==
  { [slug |-> slug] @@ i @@ o :
      i \in { <<>>, [inputSchema |-> << TextField("c1") >>] },
      o \in { <<>>, [outputSchema |-> << TextField("c1") >>] } }

WorkflowInputs(slug) ==
  { [slug |-> slug], [slug |-> slug, inputSchema |-> << TextField("c1") >>] }

JobsInputs ==
  { t @@ w :
      t \in { <<>>, [tasks |-> <<>>] }
               \cup { [tasks |-> <<a>>] : a \in TaskInputs("t1") }
               \cup { [tasks |-> <<a, [slug |-> "t2"]>>] : a \in TaskInputs("t1") },
      w \in { <<>>, [workflows |-> <<>>] }
               \cup { [workflows |-> <<a>>] : a \in WorkflowInputs("w1") }
               \cup { [workflows |-> <<a, [slug |-> "w2"]>>] : a \in WorkflowInputs("w1") } }

ConfigInputs ==
  { [globals |-> gs, collections |-> cs] :
      gs \in {<<>>} \cup { <<g>> : g \in GlobalInputs },
      cs \in { <<c>> : c \in CollectionInputs }
               \cup { <<c, UsersCollection>> : c \in CollectionInputs } }
    \cup { [globals |-> <<>>, collections |-> <<UsersCollection>>, jobs |-> j] :
             j \in JobsInputs }

\* the entities of a list as objects of the heap, from the i-th on
RECURSIVE Loaded(_, _, _, _)
Loaded(h, entities, i, refs) ==
  IF i > Len(entities) THEN [heap |-> h, refs |-> refs]
  ELSE Loaded(AllocEntity(h, entities[i]).heap, entities, i + 1,
              Append(refs, AllocEntity(h, entities[i]).ref))

\* the configuration c loaded at start-up: its globals, then its collections
LoadedGlobals(c) == Loaded(EmptyHeap, c.globals, 1, <<>>)
LoadedConfig(c) == Loaded(LoadedGlobals(c).heap, c.collections, 1, <<>>)

(***************************************************************************)
(* handleAuthRedirect                                                      *)
(* (packages/next/src/utilities/initPage/handleAuthRedirect.ts).  A string *)
(* is a sequence of symbols: words of unreserved characters, and the       *)
(* reserved characters "/", "?", "=", "&" and "%" one by one.  An object   *)
(* of search params is a sequence of [k, v] entries, key and value both    *)
(* strings; the searchParams argument is [present, entries], not present   *)
(* when it is undefined.                                                   *)
(***************************************************************************)
\* the escape of a reserved character
PercentCode(c) ==
  CASE c = "/" -> "2F" [] c = "?" -> "3F" [] c = "=" -> "3D" [] c = "&" -> "26"
    [] c = "%" -> "25"

Reserved == {"/", "?", "=", "&", "%"}

\* encodeURIComponent
encodeURIComponent(s) ==
  Flatten([i \in 1..Len(s) |->
             IF s[i] \in Reserved THEN <<"%", PercentCode(s[i])>> ELSE <<s[i]>>])

\* the escapes picoquery's parse resolves: a % followed by the code of a
\* reserved character stands for that character, any other symbol for itself
RECURSIVE Unescaped(_)
Unescaped(s) ==
  IF s = <<>> THEN <<>>
  ELSE IF Head(s) = "%" /\ Len(s) >= 2 /\ s[2] \in {PercentCode(c) : c \in Reserved}
    THEN <<CHOOSE c \in Reserved : PercentCode(c) = s[2]>> \o Unescaped(SubSeq(s, 3, Len(s)))
  ELSE <<Head(s)>> \o Unescaped(Tail(s))

\* picoquery stringify: key=value pairs, each side escaped, joined by &
stringify(entries) ==
  JoinWith([i \in 1..Len(entries) |->
              encodeURIComponent(entries[i].k) \o <<"=">>
                \o encodeURIComponent(entries[i].v)], "&")

\* the key=value pairs of a query string, in order, both sides unescaped
Pairs(s) ==
  [i \in 1..Len(SplitAt(s, "&")) |->
     [k |-> Unescaped(SplitAt(SplitAt(s, "&")[i], "=")[1]),
      v |-> Unescaped(JoinWith(Tail(SplitAt(SplitAt(s, "&")[i], "=")), "="))]]

\* picoquery parse: an object, so a key that comes again replaces the value it
\* had; the empty string has no entries
parse(s) == IF s = <<>> THEN <<>> ELSE MapSetAll(<<>>, Pairs(s))

\* route.startsWith(adminRoute)
isAdminRoute(route, adminRoute) == IsPrefix(adminRoute, route)

\* shared.ts: the route, without the admin prefix, starts with one of the
\* auth routes of config.admin.routes
isAdminAuthRoute(cfg, route, adminRoute) ==
  \E r \in cfg.authRoutes :
    IsPrefix(r, IF IsPrefix(adminRoute, route)
                  THEN SubSeq(route, Len(adminRoute) + 1, Len(route)) ELSE route)

\* line 25: if (searchParams && 'redirect' in searchParams) delete searchParams.redirect
WithoutRedirect(searchParams) ==
  [searchParams EXCEPT !.entries = SelectSeq(@, LAMBDA e : e.k # <<"redirect">>)]

\* a redirect route that is the route, followed by ? and the params when
\* there are any
RouteThenParams(route, searchParams) ==
  encodeURIComponent(route \o (IF Len(searchParams.entries) > 0
                                 THEN <<"?">> \o stringify(searchParams.entries)
                                 ELSE <<>>))

\* lines 27-31: the condition of ?: is `route + Object.keys(...).length`, a
\* string, truthy when it is not empty
RedirectRoute(route, searchParams) ==
  IF route \o <<ToString(Len(searchParams.entries))>> # <<>>
    THEN encodeURIComponent(<<"?">> \o stringify(searchParams.entries))
    ELSE encodeURIComponent(<<"undefined">>)

\* lines 35-40
LoginRoute(cfg, route, redirectUnauthenticatedUser) ==
  IF isAdminRoute(route, cfg.adminRoute)
    THEN cfg.adminRoute \o cfg.login
  ELSE IF redirectUnauthenticatedUser.isString /\ redirectUnauthenticatedUser.s # <<>>
    THEN redirectUnauthenticatedUser.s
  ELSE cfg.login

\* lines 42-44
ParsedLoginRouteSearchParams(loginRoute) ==
  parse(IF Len(SplitAt(loginRoute, "?")) > 1 THEN SplitAt(loginRoute, "?")[2] ELSE <<>>)

\* lines 46-54: the target handed to redirect()
RedirectTarget(loginRoute, redirectRoute) ==
  SplitAt(loginRoute, "?")[1] \o <<"?">>
    \o stringify(IF redirectRoute # <<>>
                   THEN MapSet(ParsedLoginRouteSearchParams(loginRoute),
                               <<"redirect">>, redirectRoute)
                   ELSE ParsedLoginRouteSearchParams(loginRoute))

\* what the call did: the searchParams object afterwards, and the target of
\* redirect() when it was called
handleAuthRedirect(cfg, redirectUnauthenticatedUser, route, searchParams) ==
  IF isAdminAuthRoute(cfg, route, cfg.adminRoute)
    THEN [redirected |-> FALSE, to |-> <<>>, searchParams |-> searchParams]
    ELSE [redirected |-> TRUE,
          to |-> RedirectTarget(LoginRoute(cfg, route, redirectUnauthenticatedUser),
                                RedirectRoute(route, WithoutRedirect(searchParams))),
          searchParams |-> WithoutRedirect(searchParams)]


(***************************************************************************)
(* PublishMany (elements/PublishMany/index.tsx).  The component holds the  *)
(* submitted state; the modal is open or closed; toasts, the route         *)
(* replacement and the cache clearing are logged in order.                 *)
(***************************************************************************)
\* toggleModal(modalSlug)
toggleModal(modal) == IF modal = "open" THEN "closed" ELSE "open"

\* a response: its status, and its body (not readable as JSON, null, or an
\* object with or without errors)
ResponseInputs ==
  { [status |-> st, body |-> b] :
      st \in {200, 400},
      b \in { [kind |-> "unreadable", errors |-> <<>>],
              [kind |-> "null", errors |-> <<>>],
              [kind |-> "object", errors |-> <<>>],
              [kind |-> "errors", errors |-> <<>>],
              [kind |-> "errors", errors |-> <<"m1">>] } }

\* lines 88-93: the toasts of an error response
ErrorToasts(json) ==
  IF json.kind = "errors"
    THEN [i \in 1..Len(json.errors) |-> [call |-> "toast.error", message |-> json.errors[i]]]
    ELSE << [call |-> "toast.error", message |-> "error:unknown"] >>

\* lines 74-86: the calls of a success response
SuccessCalls(selectAll) ==
  << [call |-> "toast.success", message |-> "general:updatedSuccessfully"],
     [call |-> "router.replace", message |-> IF selectAll # "" THEN "page=1" ELSE ""],
     [call |-> "clearRouteCache", message |-> ""] >>

\* lines 70-97: the handler of the response.  res.json() throws on a body
\* that is not JSON, and json.errors throws on null; both end in the catch.
ResponseHandled(d, res) ==
  IF res.body.kind = "unreadable"
    THEN [modal |-> d.modal,
          log |-> << [call |-> "toast.error", message |-> "error:unknown"] >>]
  ELSE IF res.status < 400
    THEN [modal |-> toggleModal(d.modal), log |-> SuccessCalls(d.selectAll)]
  ELSE IF res.body.kind = "null"
    THEN [modal |-> toggleModal(d.modal),
          log |-> << [call |-> "toast.error", message |-> "error:unknown"] >>]
  ELSE [modal |-> toggleModal(d.modal), log |-> ErrorToasts(res.body)]


(***************************************************************************)
(* The translator as a state machine: a request arrives for a collection   *)
(* with a fresh accumulator, and buildQuery translates its Where tree.     *)
(***************************************************************************)
NoWhere == Connector("none", <<>>)
Idle == [state |-> "idle", error |-> "none", errors |-> <<>>, filter |-> <<>>]
NoSchema == [state |-> "idle", error |-> "none", properties |-> <<>>, required |-> <<>>]
NoConfig == [globals |-> <<>>, collections |-> <<>>]
NoDatabase == [posts |-> <<>>, versions |-> <<>>, articles |-> <<>>]
NoRequest ==
  [state |-> "idle", operation |-> "none", where |-> NoWhere, query |-> <<>>,
   error |-> "none", result |-> <<>>]
NoPage ==
  [state |-> "none", route |-> <<>>, given |-> [present |-> FALSE, entries |-> <<>>],
   searchParams |-> [present |-> FALSE, entries |-> <<>>],
   redirectUnauthenticatedUser |-> [isString |-> FALSE, s |-> <<>>],
   redirected |-> FALSE, to |-> <<>>]
NoDialog ==
  [selectAll |-> "none", modal |-> "closed", submitted |-> FALSE, sent |-> 0,
   pending |-> 0, handled |-> 0, log |-> <<>>]
NotGenerated ==
  [state |-> "idle", error |-> "none", made |-> 0, by |-> "none", definitions |-> <<>>,
   jobs |-> <<>>]

InitQuery ==
  /\ collectionSlug \in Collections
  /\ where = NoWhere
  /\ pipeline = <<>>
  /\ projection \in {NoProjection, EmptyProjection}
  /\ outcome = Idle
  /\ calls = <<>>

\* the effect of a buildQuery call that ended as r
QueryDone(w, r) ==
  /\ where' = w
  /\ pipeline' = r.pipeline
  /\ projection' = r.projection
  /\ calls' = r.calls
  /\ outcome' = [state |-> r.state, error |-> r.error,
                 errors |-> r.errors, filter |-> r.filter]

BuildQuery(w) ==
  /\ outcome.state = "idle"
  /\ QueryDone(w, buildQuery(collectionSlug, w, pipeline, projection))
  /\ UNCHANGED <<collectionSlug, fields, registry, registered, schema>>
  /\ UNCHANGED <<entityVars, deleteVars, redirectVars, publishVars>>

Init ==
  /\ InitQuery
  /\ fields = <<>>
  /\ registry = <<>>
  /\ registered = <<>>
  /\ schema = NoSchema
  /\ heap = EmptyHeap
  /\ config = NoConfig
  /\ generated = NotGenerated
  /\ database = NoDatabase
  /\ request = NoRequest
  /\ dbCalls = <<>>
  /\ page = NoPage
  /\ dialog = NoDialog

Next == \E w \in WhereInputs : BuildQuery(w)

Spec == Init /\ [][Next]_vars

(***************************************************************************)
(* The derivation as a state machine: a field list is given, with a fresh  *)
(* registry, and fieldsToJSONSchema derives its schema.                    *)
(***************************************************************************)
InitSchema ==
  /\ collectionSlug = "posts"
  /\ where = NoWhere
  /\ pipeline = <<>>
  /\ projection = NoProjection
  /\ outcome = Idle
  /\ calls = <<>>
  /\ fields \in FieldsInputs
  /\ registry = <<>>
  /\ registered = <<>>
  /\ schema = NoSchema
  /\ heap = EmptyHeap
  /\ config = NoConfig
  /\ generated = NotGenerated
  /\ database = NoDatabase
  /\ request = NoRequest
  /\ dbCalls = <<>>
  /\ page = NoPage
  /\ dialog = NoDialog

\* the effect of a fieldsToJSONSchema call that ended as r
SchemaDerived(r) ==
  /\ schema' = IF r.error = "none"
                 THEN [state |-> "returned", error |-> "none",
                       properties |-> r.properties, required |-> r.required]
                 ELSE [state |-> "threw", error |-> r.error,
                       properties |-> <<>>, required |-> <<>>]
  /\ registry' = r.rs.interfaceNameDefinitions
  /\ registered' = r.rs.sets

DeriveSchema ==
  /\ schema.state = "idle"
  /\ SchemaDerived(fieldsToJSONSchema(getCollectionIDFieldTypes(DefaultIDType), fields,
                                      [interfaceNameDefinitions |-> registry,
                                       sets |-> <<>>]))
  /\ UNCHANGED <<collectionSlug, where, pipeline, projection, outcome, calls, fields>>
  /\ UNCHANGED <<entityVars, deleteVars, redirectVars, publishVars>>

NextSchema == DeriveSchema

SpecSchema == InitSchema /\ [][NextSchema]_vars

(***************************************************************************)
(* The generation as a state machine: a configuration is loaded once, and  *)
(* entityToJSONSchema and configToJSONSchema are called on it, any number  *)
(* of times (at most MaxCalls here).                                       *)
(***************************************************************************)
InitEntity ==
  /\ collectionSlug = "posts"
  /\ where = NoWhere
  /\ pipeline = <<>>
  /\ projection = NoProjection
  /\ outcome = Idle
  /\ calls = <<>>
  /\ fields = <<>>
  /\ registry = <<>>
  /\ registered = <<>>
  /\ schema = NoSchema
  /\ \E c \in ConfigInputs :
       /\ heap = LoadedConfig(c).heap
       /\ config = [globals |-> LoadedGlobals(c).refs,
                    collections |-> LoadedConfig(c).refs]
                     @@ (IF "jobs" \in DOMAIN c THEN [jobs |-> c.jobs] ELSE <<>>)
  /\ generated = NotGenerated
  /\ database = NoDatabase
  /\ request = NoRequest
  /\ dbCalls = <<>>
  /\ page = NoPage
  /\ dialog = NoDialog

\* the effect of a call that ended as r, with the definitions it returned
Generated(by, r, definitions, jobs) ==
  /\ heap' = r.heap
  /\ registry' = r.rs.interfaceNameDefinitions
  /\ registered' = r.rs.sets
  /\ generated' = [state |-> IF r.error = "none" THEN "returned" ELSE "threw",
                   error |-> r.error, made |-> generated.made + 1, by |-> by,
                   definitions |-> IF r.error = "none" THEN definitions ELSE <<>>,
                   jobs |-> IF r.error = "none" THEN jobs ELSE <<>>]
  /\ UNCHANGED <<collectionSlug, where, pipeline, projection, outcome, calls,
                 fields, schema, config>>
  /\ UNCHANGED <<deleteVars, redirectVars, publishVars>>

EntityGenerated(slug, r) ==
  Generated("entityToJSONSchema", r, <<[k |-> slug, v |-> r.schema]>>, <<>>)

\* entityToJSONSchema on the entity at address e, with a fresh Map
EntityToJSONSchema(e, defaultIDType) ==
  /\ generated.made < MaxCalls
  /\ EntityGenerated(heap.entities[e].slug,
                     entityToJSONSchema(heap, e,
                                        [interfaceNameDefinitions |-> <<>>, sets |-> <<>>],
                                        defaultIDType,
                                        getCollectionIDFieldTypes(defaultIDType)))

ConfigGenerated(r) == Generated("configToJSONSchema", r, r.definitions, r.jobs)

ConfigToJSONSchema(defaultIDType) ==
  /\ generated.made < MaxCalls
  /\ ConfigGenerated(configToJSONSchema(heap, config, defaultIDType))

\* defaultIDType?: 'number' | 'text'; "undefined" is the argument left out
DefaultIDTypeInputs == {"number", "text", "undefined"}

NextEntity ==
  \/ \E e \in 1..Len(config.globals \o config.collections), d \in DefaultIDTypeInputs :
       EntityToJSONSchema((config.globals \o config.collections)[e], d)
  \/ \E d \in DefaultIDTypeInputs : ConfigToJSONSchema(d)

SpecEntity == InitEntity /\ [][NextEntity]_vars

(***************************************************************************)
(* deleteMany (packages/db-mongodb/src/deleteMany.ts) and deleteVersions   *)
(* (src/unnamed/part_002) as a state machine.  Each awaits                 *)
(* buildQueryWithAggregate and then Model.deleteMany: the two database     *)
(* calls are separate steps, and another client of the database may write  *)
(* between them.  req carries no transaction.  The versions Model is       *)
(* given the collection's own field list as its versionsFields.            *)
(***************************************************************************)
MaxWrites == 1

PostDoc(id, title, article) ==
  [_id |-> Oid(<<id>>), title |-> Str(<<title>>), article |-> Str(<<article>>)]
ArticleDoc(id, title) == [_id |-> Str(<<id>>), title |-> Str(<<title>>)]

DatabaseInputs ==
  { [posts    |-> << PostDoc("p1", "a", "x"), PostDoc("p2", t, r) >>,
     versions |-> << PostDoc("v1", "a", "x"), PostDoc("v2", "b", r) >>,
     articles |-> << ArticleDoc("x", tx), ArticleDoc("y", ty) >>] :
      t \in {"a", "b"}, r \in {"x", "y"}, tx \in {"a", "b"}, ty \in {"a", "b"} }

DeleteLeaves ==
  { Leaf(p, o, Str(<<v>>)) :
      p \in { <<"title">>, <<"article", ".", "title">> },
      o \in {"equals", "not_equals"}, v \in {"a", "b"} }

DeleteWhereInputs ==
  DeleteLeaves
    \cup { Connector(k, << Leaf(<<"title">>, "equals", Str(<<"a">>)),
                           Leaf(<<"article", ".", "title">>, "equals", Str(<<"a">>)) >>) :
             k \in {"and", "or"} }
    \cup { Leaf(<<"nowhere">>, "equals", Str(<<"a">>)) }

CollectionModel == [store |-> "posts", slug |-> "posts"]
VersionsModel == [store |-> "versions", slug |-> "posts"]

InitDelete ==
  /\ collectionSlug = "posts"
  /\ where = NoWhere
  /\ pipeline = <<>>
  /\ projection = NoProjection
  /\ outcome = Idle
  /\ calls = <<>>
  /\ fields = <<>>
  /\ registry = <<>>
  /\ registered = <<>>
  /\ schema = NoSchema
  /\ heap = EmptyHeap
  /\ config = NoConfig
  /\ generated = NotGenerated
  /\ database \in DatabaseInputs
  /\ request = NoRequest
  /\ dbCalls = <<>>
  /\ page = NoPage
  /\ dialog = NoDialog

\* the request has awaited buildQueryWithAggregate, which ended as r
Collected(operation, w, r) ==
  /\ request' = [state |-> IF r.state = "threw" THEN "threw" ELSE "collected",
                 operation |-> operation, where |-> w, query |-> r.query,
                 error |-> r.error, result |-> <<>>]
  /\ dbCalls' = dbCalls \o r.dbCalls
  /\ UNCHANGED database
  /\ UNCHANGED <<queryVars, schemaVars, entityVars, redirectVars, publishVars>>

\* deleteMany.ts, lines 13-24
DeleteManyCollect(w) ==
  /\ request.state = "idle"
  /\ Collected("deleteMany", w, buildQueryWithAggregate(database, CollectionModel, w))

\* part_002, lines 13-25
DeleteVersionsCollect(w) ==
  /\ request.state = "idle"
  /\ Collected("deleteVersions", w, buildQueryWithAggregate(database, VersionsModel, w))

\* Model.deleteMany(query, options) on the database as it is now; the call
\* is recorded with the documents it removed
Deleted(Model, removed) ==
  /\ database' = [database EXCEPT ![Model.store] = deleteManyDocs(@, request.query)]
  /\ dbCalls' = Append(dbCalls, [call |-> "deleteMany", store |-> Model.store,
                                 query |-> request.query, removed |-> removed,
                                 database |-> database])
  /\ request' = [request EXCEPT !.state = "done"]
  /\ UNCHANGED <<queryVars, schemaVars, entityVars, redirectVars, publishVars>>

\* deleteMany.ts, line 26
DeleteManyDelete ==
  /\ request.state = "collected"
  /\ request.operation = "deleteMany"
  /\ Deleted(CollectionModel,
             SelectSeq(database.posts, LAMBDA d : Matches(d, request.query)))

\* part_002, line 27
DeleteVersionsDelete ==
  /\ request.state = "collected"
  /\ request.operation = "deleteVersions"
  /\ Deleted(VersionsModel,
             SelectSeq(database.versions, LAMBDA d : Matches(d, request.query)))

\* deleteOne.ts, lines 13-21
DeleteOneCollect(w) ==
  /\ request.state = "idle"
  /\ Collected("deleteOne", w, buildQueryWithAggregate(database, CollectionModel, w))

\* sanitizeInternalFields (utilities/sanitizeInternalFields.ts): the entries
\* of the document in order, _id put under id and __v dropped; an id entry
\* that comes after _id replaces what _id gave
sanitizeInternalFields(doc) ==
  [k \in (DOMAIN doc \ {"_id", "__v"}) \cup (IF "_id" \in DOMAIN doc THEN {"id"} ELSE {}) |->
     IF k \in DOMAIN doc THEN doc[k] ELSE doc._id]

\* deleteOne.ts, lines 25-31, on what findOneAndDelete gave: the document
\* with its _id under id, sanitized, or the TypeError of `result.id` on null
DeleteOneResult(found) ==
  IF found = <<>> THEN [error |-> "TypeError", result |-> <<>>]
  ELSE [error |-> "none",
        result |-> sanitizeInternalFields([id |-> Jsonified(found[1])._id]
                                            @@ Jsonified(found[1]))]

\* Model.findOneAndDelete(query, options) on the database as it is now, found
\* the document it removed, r what the request made of it
DeletedOne(Model, found, r) ==
  /\ database' = [database EXCEPT ![Model.store] = findOneAndDeleteDocs(@, request.query)]
  /\ dbCalls' = Append(dbCalls, [call |-> "findOneAndDelete", store |-> Model.store,
                                 query |-> request.query, removed |-> found,
                                 database |-> database])
  /\ request' = [request EXCEPT !.state = "done", !.error = r.error, !.result = r.result]
  /\ UNCHANGED <<queryVars, schemaVars, entityVars, redirectVars, publishVars>>

\* deleteOne.ts, lines 23-31
DeleteOneDelete ==
  /\ request.state = "collected"
  /\ request.operation = "deleteOne"
  /\ DeletedOne(CollectionModel, FoundOne(database.posts, request.query),
                DeleteOneResult(FoundOne(database.posts, request.query)))

\* another client of the database gives an article a new title
WriterUpdates(i, title) ==
  /\ Len(SelectSeq(dbCalls, LAMBDA c : c.call = "updateOne")) < MaxWrites
  /\ database.articles[i].title # Str(<<title>>)
  /\ database' = [database EXCEPT !.articles[i].title = Str(<<title>>)]
  /\ dbCalls' = Append(dbCalls, [call |-> "updateOne", store |-> "articles",
                                 id |-> database.articles[i]._id])
  /\ UNCHANGED request
  /\ UNCHANGED <<queryVars, schemaVars, entityVars, redirectVars, publishVars>>

NextDelete ==
  \/ \E w \in DeleteWhereInputs : DeleteManyCollect(w)
  \/ \E w \in DeleteWhereInputs : DeleteVersionsCollect(w)
  \/ \E w \in DeleteWhereInputs : DeleteOneCollect(w)
  \/ DeleteManyDelete
  \/ DeleteVersionsDelete
  \/ DeleteOneDelete
  \/ \E i \in 1..2, title \in {"a", "b"} : WriterUpdates(i, title)

SpecDelete == InitDelete /\ [][NextDelete]_vars

(***************************************************************************)
(* handleAuthRedirect as a state machine: a page request arrives with its  *)
(* route and search params, and the handler runs once.                     *)
(***************************************************************************)
RedirectConfig ==
  [adminRoute |-> <<"/", "admin">>, login |-> <<"/", "login">>,
   authRoutes |-> { <<"/", "login">>, <<"/", "logout">> }]

RouteInputs ==
  { <<"/", "admin", "/", "login">>, <<"/", "admin", "/", "logout">>, <<"/", "admin">>,
    <<"/", "admin", "/", "collections">>, <<"/", "account">>, <<"/", "my", "/", "posts">> }

SearchParamEntries ==
  << [k |-> <<"redirect">>, v |-> <<"/", "x">>], [k |-> <<"a">>, v |-> <<"1">>],
     [k |-> <<"b">>, v |-> <<"x", "&", "y">>] >>

SearchParamsInputs ==
  { [present |-> FALSE, entries |-> <<>>] }
    \cup { [present |-> TRUE,
            entries |-> SelectSeq(SearchParamEntries, LAMBDA e : e.k[1] \in keys)] :
             keys \in SUBSET {"redirect", "a", "b"} }

RedirectUnauthenticatedUserInputs ==
  { [isString |-> FALSE, s |-> <<>>],
    [isString |-> TRUE, s |-> <<"/", "signin">>],
    [isString |-> TRUE, s |-> <<"/", "signin", "?", "from", "=", "app">>],
    [isString |-> TRUE,
     s |-> <<"/", "signin", "?", "a", "%", "2F", "b", "=", "1", "&",
             "from", "=", "x", "&", "from", "=", "y">>] }

InitRedirect ==
  /\ collectionSlug = "posts"
  /\ where = NoWhere
  /\ pipeline = <<>>
  /\ projection = NoProjection
  /\ outcome = Idle
  /\ calls = <<>>
  /\ fields = <<>>
  /\ registry = <<>>
  /\ registered = <<>>
  /\ schema = NoSchema
  /\ heap = EmptyHeap
  /\ config = NoConfig
  /\ generated = NotGenerated
  /\ database = NoDatabase
  /\ request = NoRequest
  /\ dbCalls = <<>>
  /\ dialog = NoDialog
  /\ \E r \in RouteInputs, sp \in SearchParamsInputs,
        u \in RedirectUnauthenticatedUserInputs :
       page = [state |-> "requested", route |-> r, given |-> sp, searchParams |-> sp,
               redirectUnauthenticatedUser |-> u, redirected |-> FALSE, to |-> <<>>]

\* the effect of a handleAuthRedirect call that ended as r
AuthRedirectHandled(r) ==
  page' = [page EXCEPT !.state = "handled", !.searchParams = r.searchParams,
                       !.redirected = r.redirected, !.to = r.to]

HandleAuthRedirect ==
  /\ page.state = "requested"
  /\ AuthRedirectHandled(handleAuthRedirect(RedirectConfig, page.redirectUnauthenticatedUser,
                                            page.route, page.searchParams))
  /\ UNCHANGED <<queryVars, schemaVars, entityVars, deleteVars, publishVars>>

NextRedirect == HandleAuthRedirect

SpecRedirect == InitRedirect /\ [][NextRedirect]_vars

(***************************************************************************)
(* PublishMany as a state machine: the user clicks the pill, the cancel    *)
(* button or the confirm button, and the responses of the requests arrive. *)
(***************************************************************************)
\* the publish requests one component sends
MaxRequests == 2

\* the values of SelectAllStatus the component is rendered for (line 114)
SelectAllInputs == {"allAvailable", "allInPage", "some"}

InitPublish ==
  /\ collectionSlug = "posts"
  /\ where = NoWhere
  /\ pipeline = <<>>
  /\ projection = NoProjection
  /\ outcome = Idle
  /\ calls = <<>>
  /\ fields = <<>>
  /\ registry = <<>>
  /\ registered = <<>>
  /\ schema = NoSchema
  /\ heap = EmptyHeap
  /\ config = NoConfig
  /\ generated = NotGenerated
  /\ database = NoDatabase
  /\ request = NoRequest
  /\ dbCalls = <<>>
  /\ page = NoPage
  /\ \E s \in SelectAllInputs : dialog = [NoDialog EXCEPT !.selectAll = s]

UnchangedByPublish == UNCHANGED <<queryVars, schemaVars, entityVars, deleteVars, redirectVars>>

\* lines 122-125: the pill
ClickPill ==
  /\ dialog' = [dialog EXCEPT !.submitted = FALSE, !.modal = toggleModal(@)]
  /\ UnchangedByPublish

\* line 136: the cancel button of the open modal
ClickCancel ==
  /\ dialog.modal = "open"
  /\ ~dialog.submitted
  /\ dialog' = [dialog EXCEPT !.modal = toggleModal(@)]
  /\ UnchangedByPublish

\* lines 141, 55-69: the confirm button of the open modal sends the request
ClickConfirm ==
  /\ dialog.modal = "open"
  /\ ~dialog.submitted
  /\ dialog.sent < MaxRequests
  /\ dialog' = [dialog EXCEPT !.submitted = TRUE, !.sent = @ + 1, !.pending = @ + 1,
                              !.log = Append(@, [call |-> "requests.patch",
                                                 message |-> "_status=published"])]
  /\ UnchangedByPublish

\* the effect of a response handled as r
Responded(r) ==
  dialog' = [dialog EXCEPT !.modal = r.modal, !.pending = @ - 1, !.handled = @ + 1,
                           !.log = @ \o r.log]

\* lines 70-97: a response arrives
Respond(res) ==
  /\ dialog.pending > 0
  /\ Responded(ResponseHandled(dialog, res))
  /\ UnchangedByPublish

NextPublish ==
  \/ ClickPill
  \/ ClickCancel
  \/ ClickConfirm
  \/ \E res \in ResponseInputs : Respond(res)

SpecPublish == InitPublish /\ [][NextPublish]_vars

(***************************************************************************)
(* Claims about the query translator.  `calls` holds, for the buildQuery   *)
(* just made, one record per buildSearchParam call: the leaf, the resolved *)
(* paths, the accumulator before and after, and what the call returned.    *)
(***************************************************************************)
Translated == outcome.state # "idle"

IsLikeOfString(c) == c.leaf.op = "like" /\ c.leaf.val.t = "string" /\ c.threw = "none"

\* the stages a call appended to the accumulator
Appended(c) == SubSeq(c.after, Len(c.before) + 1, Len(c.after))

\* C1: a Where with a leaf whose operator is outside the fixed set makes
\* buildQuery fail with a QueryError that lists every such leaf; no filter is
\* returned.
C1_UnknownOperatorIsQueryError ==
  (Translated /\ \E i \in 1..Len(LeavesOf(where)) : LeavesOf(where)[i].op \notin validOperators)
    => /\ outcome.state = "threw"
       /\ outcome.error = "QueryError"
       /\ \A i \in 1..Len(LeavesOf(where)) :
            LeavesOf(where)[i].op \notin validOperators
              => \E k \in 1..Len(outcome.errors) : outcome.errors[k] = LeavesOf(where)[i]

\* C2: the path `id` or `_id` resolves, on every collection, to exactly one
\* complete segment stored at `_id` whose field type is the collection's
\* custom id type, or text when none is declared, and appends no join stage.
C2_IdPathIsOneSegment ==
  \A i \in 1..Len(calls) :
    calls[i].leaf.path \in {<<"id">>, <<"_id">>}
      => /\ Len(calls[i].paths) = 1
         /\ calls[i].paths[1].complete
         /\ calls[i].paths[1].path = <<"_id">>
         /\ calls[i].paths[1].field.type =
              (IF "customIDType" \in DOMAIN PayloadCollections[collectionSlug]
                 THEN PayloadCollections[collectionSlug].customIDType ELSE "text")
         /\ calls[i].after = calls[i].before

C2_Witness ==
  \E i \in 1..Len(calls) :
    /\ calls[i].leaf.path = <<"id">>
    /\ collectionSlug = "users"
    /\ calls[i].paths[1].field.type = "number"
    /\ calls[i].ret.kind = "pathvalue"

\* a resolved path of two segments, a relationship and then `id`
IsRelationshipId(c) ==
  /\ Len(c.paths) = 2
  /\ c.paths[2].path = <<"id">>
  /\ c.paths[1].field.type \in {"relationship", "upload"}

\* C3: for a two-segment path <relationship>.id no join stage is appended and
\* the filter returned is placed on the relationship's own stored path.
C3_RelationshipIdNeedsNoJoin ==
  \A i \in 1..Len(calls) :
    IsRelationshipId(calls[i])
      => /\ calls[i].after = calls[i].before
         /\ calls[i].ret.kind # "undefined"
              => /\ calls[i].ret.kind = "pathvalue"
                 /\ calls[i].ret.path = calls[i].paths[1].path

C3_Witness ==
  \E i \in 1..Len(calls) :
    /\ calls[i].leaf.path = <<"article", ".", "id">>
    /\ IsRelationshipId(calls[i])
    /\ calls[i].ret.kind = "pathvalue"
    /\ calls[i].ret.path = <<"article">>

\* a resolved path of three segments over two relationship hops, not ending in id
IsTwoHops(c) ==
  /\ Len(c.paths) = 3
  /\ c.paths[1].field.type \in {"relationship", "upload"}
  /\ c.paths[2].field.type \in {"relationship", "upload"}
  /\ c.paths[3].path # <<"id">>

\* C4: a three-segment path over two relationship hops that does not end in
\* id appends exactly 2 join stages in traversal order: the first joins on the
\* origin relationship field, the second on a path that starts with the alias
\* the first produced.
C4_TwoHopsTwoStages ==
  \A i \in 1..Len(calls) :
    IsTwoHops(calls[i])
      => /\ Len(calls[i].after) = Len(calls[i].before) + 2
         /\ SubSeq(calls[i].after, 1, Len(calls[i].before)) = calls[i].before
         /\ Appended(calls[i])[1].localField = calls[i].paths[1].path
         /\ IsPrefix(Appended(calls[i])[1].as, Appended(calls[i])[2].localField)

C4_Witness ==
  \E i \in 1..Len(calls) :
    /\ IsTwoHops(calls[i])
    /\ calls[i].leaf.path = <<"article", ".", "author", ".", "name">>
    /\ Len(Appended(calls[i])) = 2
    /\ calls[i].ret.kind = "pathvalue"

\* the white-space-delimited tokens of a string
RECURSIVE TokensOf(_)
TokensOf(s) ==
  IF DropWhile(s, WhiteSpace) = <<>> THEN <<>>
  ELSE <<TakeWhile(DropWhile(s, WhiteSpace), Chars \ WhiteSpace)>>
       \o TokensOf(DropWhile(DropWhile(s, WhiteSpace), Chars \ WhiteSpace))

\* a regex in which every metacharacter is escaped, and which reads `word`
\* once the escapes are taken away
RECURSIVE IsEscapeOf(_, _)
IsEscapeOf(regex, word) ==
  IF word = <<>> THEN regex = <<>>
  ELSE IF Head(word) \in RegexMeta
    THEN /\ Len(regex) >= 2
         /\ regex[1] = "\\"
         /\ regex[2] = Head(word)
         /\ IsEscapeOf(SubSeq(regex, 3, Len(regex)), Tail(word))
  ELSE /\ Len(regex) >= 1
       /\ regex[1] = Head(word)
       /\ IsEscapeOf(Tail(regex), Tail(word))

\* the resolved path a comparison of call c is placed on
ResolvedPath(c) == IF Len(c.paths) > 1 THEN JoinedPath(c.paths) ELSE c.paths[1].path

IsConjunctionOfFragments(c, words) ==
  /\ c.ret.kind = "value"
  /\ "frags" \in DOMAIN c.ret.value
  /\ c.ret.value.q = "$and"
  /\ Len(c.ret.value.frags) = Len(words)
  /\ \A k \in 1..Len(words) :
       /\ c.ret.value.frags[k].path = ResolvedPath(c)
       /\ c.ret.value.frags[k].options = "i"
       /\ IsEscapeOf(c.ret.value.frags[k].regex, words[k])

\* C5 (as claimed): for every string value, like yields a conjunction of
\* case-insensitive regex fragments on the resolved path, exactly one per
\* white-space-delimited token of the value, each token regex-escaped.
C5_LikeOneFragmentPerToken ==
  \A i \in 1..Len(calls) :
    IsLikeOfString(calls[i])
      => IsConjunctionOfFragments(calls[i], TokensOf(calls[i].leaf.val.s))

\* the pieces of s between its single space characters, computed from the
\* positions of the spaces
SpacePositions(s) == {k \in 1..Len(s) : s[k] = SPACE}
PieceAfter(s, k) ==
  SubSeq(s, k + 1,
         IF \E j \in SpacePositions(s) : j > k
           THEN (CHOOSE j \in SpacePositions(s) :
                   j > k /\ \A m \in SpacePositions(s) : m > k => j <= m) - 1
           ELSE Len(s))
RECURSIVE PiecesFrom(_, _)
PiecesFrom(s, k) ==
  <<PieceAfter(s, k)>>
  \o (IF \E j \in SpacePositions(s) : j > k
        THEN PiecesFrom(s, k + Len(PieceAfter(s, k)) + 1)
        ELSE <<>>)

\* like of a string on a declared text field (not the id), own or joined
IsLikeOnTextField(c) ==
  /\ IsLikeOfString(c)
  /\ c.paths[Len(c.paths)].field.type = "text"
  /\ c.paths[Len(c.paths)].field.name # "id"

\* C5 (amended): for every string value, like on a text field yields a
\* conjunction of case-insensitive regex fragments on the resolved path,
\* exactly one per piece of the value split at each single space character
\* (one more fragment than the value has spaces: an empty piece gives a
\* fragment with an empty pattern, and a tab does not split), each piece
\* regex-escaped.
C5_LikeOneFragmentPerSpacePiece ==
  \A i \in 1..Len(calls) :
    IsLikeOnTextField(calls[i])
      => /\ IsConjunctionOfFragments(calls[i], PiecesFrom(calls[i].leaf.val.s, 0))
         /\ Len(calls[i].ret.value.frags) = Cardinality(SpacePositions(calls[i].leaf.val.s)) + 1

C5_Witness ==
  \E i \in 1..Len(calls) :
    /\ IsLikeOnTextField(calls[i])
    /\ calls[i].leaf.val.s = <<"a", SPACE, ".">>
    /\ Len(calls[i].ret.value.frags) = 2
    /\ calls[i].ret.value.frags[2].regex = <<"\\", ".">>

(***************************************************************************)
(* Claims about the schema derivation.  `registered` holds, for the        *)
(* derivation just made, one record per interfaceNameDefinitions.set call: *)
(* the interface name, the schema stored, the field or block that stored   *)
(* it and the schema emitted in its place.                                 *)
(***************************************************************************)
Derived == schema.state # "idle"

\* the field lists directly inside a field: its fields, those of its blocks,
\* those of its tabs
SubFieldLists(field) ==
  IF "fields" \in DOMAIN field THEN <<field.fields>>
  ELSE IF "blocks" \in DOMAIN field
    THEN [j \in 1..Len(field.blocks) |-> field.blocks[j].fields]
  ELSE IF "tabs" \in DOMAIN field
    THEN [j \in 1..Len(field.tabs) |-> field.tabs[j].fields]
  ELSE <<>>

\* the fields of a list and of everything nested in them, in the order the
\* derivation meets them
RECURSIVE FieldsInOrder(_)
FieldsInOrder(fs) ==
  Flatten([i \in 1..Len(fs) |->
             <<fs[i]>> \o Flatten([j \in 1..Len(SubFieldLists(fs[i])) |->
                                     FieldsInOrder(SubFieldLists(fs[i])[j])])])

IsNamedArray(f) == "type" \in DOMAIN f /\ f.type = "array" /\ HasInterfaceName(f)

\* C7: every array field with an interfaceName N has, after the derivation,
\* its own schema under N in the registry, and each of its occurrences is
\* emitted as a $ref to #/definitions/N.
C7_NamedArrayIsRegisteredAndReferenced ==
  schema.state = "returned" =>
    /\ \A n \in 1..Len(FieldsInOrder(fields)) :
         IsNamedArray(FieldsInOrder(fields)[n]) =>
           /\ \E i \in 1..Len(registered) : registered[i].field = FieldsInOrder(fields)[n]
           /\ \A i \in 1..Len(registered) :
                registered[i].field = FieldsInOrder(fields)[n] =>
                  /\ registered[i].emitted = Ref(registered[i].interfaceName)
                  /\ MapHas(registry, registered[i].interfaceName)
                  /\ MapGet(registry, registered[i].interfaceName) = registered[i].schema
    /\ \A i \in 1..Len(fields) :
         IsNamedArray(fields[i]) =>
           /\ MapHas(schema.properties, fields[i].name)
           /\ MapGet(schema.properties, fields[i].name) = Ref(fields[i].interfaceName)

\* two set calls of the derivation used one interface name for two schemas
SharedWithDifferentShapes(i, j) ==
  /\ i < j
  /\ registered[i].interfaceName = registered[j].interfaceName
  /\ registered[i].schema # registered[j].schema

\* the first set call that used the interface name of the i-th one
FirstSet(i) ==
  CHOOSE k \in 1..i :
    /\ registered[k].interfaceName = registered[i].interfaceName
    /\ \A l \in 1..(k - 1) : registered[l].interfaceName # registered[i].interfaceName

\* C8: when two fields share an interfaceName and have different shapes the
\* derivation fails with a configuration error, and the registry keeps the
\* schema stored under that name first.
C8_SharedInterfaceNameMismatchIsError ==
  \A i, j \in 1..Len(registered) :
    SharedWithDifferentShapes(i, j) =>
      /\ schema.state = "threw"
      /\ MapGet(registry, registered[i].interfaceName) = registered[FirstSet(i)].schema

IsOffendingRichText(f) ==
  /\ "type" \in DOMAIN f
  /\ f.type = "richText"
  /\ ("editor" \notin DOMAIN f \/ f.editor = "function")

\* the richText fields without a usable editor, in the order the derivation
\* meets them
Offenders(fs) == SelectSeq(FieldsInOrder(fs), IsOffendingRichText)

\* C9: the derivation fails with MissingEditorProp at a richText field that
\* has no editor and with the unsanitized-editor error at one whose editor is
\* a function (the first such field the derivation meets decides), and it
\* fails for no field list without such a field.
C9_RichTextEditorErrors ==
  Derived =>
    IF Offenders(fields) = <<>>
      THEN schema.state = "returned" /\ schema.error = "none"
      ELSE /\ schema.state = "threw"
           /\ schema.error = IF "editor" \notin DOMAIN Offenders(fields)[1]
                               THEN "MissingEditorProp"
                               ELSE UnsanitizedEditorError

\* a derivation met a richText whose editor is a function and, after it, one
\* without an editor, and failed with the unsanitized-editor error
C9_Witness ==
  /\ Derived
  /\ Len(Offenders(fields)) = 2
  /\ "editor" \in DOMAIN Offenders(fields)[1]
  /\ "editor" \notin DOMAIN Offenders(fields)[2]
  /\ schema.error = UnsanitizedEditorError

PairOfNumbers(s) ==
  /\ s.items = << [type |-> <<"number">>], [type |-> <<"number">>] >>
  /\ s.minItems = 2
  /\ s.maxItems = 2

AdmitsNull(s) == \E i \in 1..Len(s.type) : s.type[i] = "null"

\* the schema emitted for the field at position i of the list
EmittedFor(i) == MapGet(schema.properties, fields[i].name)

\* C10 as stated: a point field derives to a 2-tuple of numbers whose type
\* admits null, whether or not the field is required.
C10_PointAlwaysNullable ==
  schema.state = "returned" =>
    \A i \in 1..Len(fields) :
      fields[i].type = "point" =>
        /\ PairOfNumbers(EmittedFor(i))
        /\ EmittedFor(i).type[1] = "array"
        /\ AdmitsNull(EmittedFor(i))

\* C10, amended: a point field derives to a 2-tuple of numbers whose type
\* admits null exactly when the field is not required (not marked required,
\* or behind a condition).
C10_PointNullableUnlessRequired ==
  schema.state = "returned" =>
    \A i \in 1..Len(fields) :
      fields[i].type = "point" =>
        /\ PairOfNumbers(EmittedFor(i))
        /\ EmittedFor(i).type[1] = "array"
        /\ AdmitsNull(EmittedFor(i))
             <=> ~(IsMarkedRequired(fields[i]) /\ ~IsConditional(fields[i]))

\* a required point was derived, and its type does not admit null
C10_Witness ==
  /\ schema.state = "returned"
  /\ \E i \in 1..Len(fields) :
       /\ fields[i].type = "point"
       /\ IsMarkedRequired(fields[i])
       /\ ~IsConditional(fields[i])
       /\ EmittedFor(i).type = <<"array">>

ScalarTypes == {"text", "textarea", "email", "date", "number", "checkbox"}

\* the field is marked required and is not behind a condition
IsRequiredField(f) == IsMarkedRequired(f) /\ ~IsConditional(f)

InRequired(name) == \E k \in 1..Len(schema.required) : schema.required[k] = name

\* C11: for a text, textarea, email, date, number or checkbox field the derived
\* type admits null exactly when the field is not required, and the name of
\* the field is in `required` exactly when it is required.
C11_ScalarNullableUnlessRequired ==
  schema.state = "returned" =>
    \A i \in 1..Len(fields) :
      fields[i].type \in ScalarTypes =>
        /\ AdmitsNull(EmittedFor(i)) <=> ~IsRequiredField(fields[i])
        /\ InRequired(fields[i].name) <=> IsRequiredField(fields[i])

\* a required checkbox was derived: its type is boolean without null and its
\* name is listed
C11_Witness ==
  /\ schema.state = "returned"
  /\ \E i \in 1..Len(fields) :
       /\ fields[i].type = "checkbox"
       /\ IsRequiredField(fields[i])
       /\ EmittedFor(i).type = <<"boolean">>
       /\ InRequired(fields[i].name)

\* the value an option declares: its `value` when it is an object, itself when
\* it is a string
RECURSIVE DeclaredValues(_)
DeclaredValues(options) ==
  IF options = <<>> THEN <<>>
  ELSE << IF "string" \in DOMAIN Head(options)
            THEN Head(options).string ELSE Head(options).value >>
       \o DeclaredValues(Tail(options))

\* C12: a select field with hasMany true derives to an array-typed schema
\* whose items are strings of the enum of the declared option values, in the
\* order of declaration.
C12_SelectHasManyEnum ==
  schema.state = "returned" =>
    \A i \in 1..Len(fields) :
      (fields[i].type = "select" /\ HasMany(fields[i])) =>
        /\ EmittedFor(i).type[1] = "array"
        /\ EmittedFor(i).items.type = <<"string">>
        /\ EmittedFor(i).items.enum = DeclaredValues(fields[i].options)

\* a select with hasMany and three options, an object between two strings,
\* was derived
C12_Witness ==
  /\ schema.state = "returned"
  /\ \E i \in 1..Len(fields) :
       /\ fields[i].type = "select"
       /\ HasMany(fields[i])
       /\ Len(fields[i].options) = 3
       /\ EmittedFor(i).items.enum = <<"c", "b", "a">>

\* C13: after the leaves of a Where that share one accumulator are
\* translated, no two stages of the accumulator have the same alias: a
\* relationship chain that an earlier leaf joined is not joined again.
C13_NoTwoStagesShareAlias ==
  Translated =>
    \A i, j \in 1..Len(pipeline) : i < j => pipeline[i].as # pipeline[j].as

EndsInId(c) == c.paths[Len(c.paths)].path = <<"id">>

\* C14: a leaf whose resolved path has n >= 2 segments appends one join stage
\* per segment after the first, less the stage of a final id segment: n - 1
\* stages, or n - 2 when the last segment is id.
C14_OneStagePerSegmentAfterFirst ==
  \A i \in 1..Len(calls) :
    Len(calls[i].paths) >= 2 =>
      Len(calls[i].after) =
        Len(calls[i].before) + Len(calls[i].paths) - (IF EndsInId(calls[i]) THEN 2 ELSE 1)

\* the stages that were in the accumulator are still there, in their places
KeepsStages(c) == IsPrefix(c.before, c.after)

\* C15 as stated: a leaf's translation only appends to the accumulator; the
\* stages already there stay as they were, and the projection object is the
\* same after the call as before it.
C15_OnlyAppendsStages ==
  \A i \in 1..Len(calls) :
    /\ KeepsStages(calls[i])
    /\ calls[i].projectionAfter = calls[i].projectionBefore

\* C15, amended: a leaf's translation only appends to the accumulator, and
\* when a projection object was passed and the leaf appended stages, it sets
\* the alias of the first stage it appended to false in that object; it
\* changes nothing else of the projection.
C15_AppendsStagesAndHidesFirstJoin ==
  \A i \in 1..Len(calls) :
    /\ KeepsStages(calls[i])
    /\ calls[i].projectionAfter =
         IF calls[i].projectionBefore.present /\ Appended(calls[i]) # <<>>
           THEN [calls[i].projectionBefore EXCEPT
                   !.falseKeys = @ \cup {Appended(calls[i])[1].as}]
           ELSE calls[i].projectionBefore

\* a leaf over two hops was translated with a projection object that did
\* not yet hide _article: two stages were appended and _article is now false
\* in the projection
C15_Witness ==
  \E i \in 1..Len(calls) :
    /\ calls[i].projectionBefore.present
    /\ Len(Appended(calls[i])) = 2
    /\ <<"_", "article">> \in calls[i].projectionAfter.falseKeys
    /\ <<"_", "article">> \notin calls[i].projectionBefore.falseKeys

\* a relationship or upload field of the collection itself, compared to a
\* string with a valid operator
IsRelationshipToString(c) ==
  /\ c.threw = "none"
  /\ Len(c.paths) = 1
  /\ c.paths[1].field.type \in {"relationship", "upload"}
  /\ c.leaf.val.t = "string"
  /\ c.leaf.op \in validOperators

\* the filter returned is a disjunction or conjunction of several forms of
\* the value
IsMultiID(c) == c.ret.kind = "value" /\ "branches" \in DOMAIN c.ret.value

HasBranchOf(c, t) ==
  IsMultiID(c) /\ \E k \in 1..Len(c.ret.value.branches) : c.ret.value.branches[k].val.t = t

\* some declared target of the field has a custom number id
SomeTargetHasNumberID(c) ==
  \E k \in 1..Len(c.paths[1].field.relationTo.to) :
    "customIDType" \in DOMAIN PayloadCollections[c.paths[1].field.relationTo.to[k]]
    /\ PayloadCollections[c.paths[1].field.relationTo.to[k]].customIDType = "number"

\* the number-coerced branch is in the filter only if some declared target
\* has a custom number id, whichever of the targets it is, and it is there
\* whenever the string is not an ObjectId and such a target exists
NumberBranchIffNumberIDTarget(c) ==
  /\ HasBranchOf(c, "number") => SomeTargetHasNumberID(c)
  /\ (SomeTargetHasNumberID(c) /\ ~ObjectIdIsValid(c.leaf.val.s)) => HasBranchOf(c, "number")

\* no coerced branch was added to the filter
NoCoercedBranch(c) == ~HasBranchOf(c, "number") /\ ~HasBranchOf(c, "objectid")

\* the filter is one comparison of the field with the value as given
IsPlainComparison(c) ==
  \E o \in DOMAIN operatorMap :
    c.ret = [kind |-> "pathvalue", path |-> c.paths[1].path,
             value |-> [q |-> "cmp", op |-> operatorMap[o], val |-> c.leaf.val]]

\* the filter the operator gives on any other field: the comparison under
\* the operator's symbol; for like one regex fragment per piece of the
\* string; for an operator without a symbol the value itself
IsFilterOfOperator(c) ==
  IF c.leaf.op = "like"
    THEN IsConjunctionOfFragments(c, PiecesFrom(c.leaf.val.s, 0))
  ELSE IF c.leaf.op \in DOMAIN operatorMap
    THEN c.ret = [kind |-> "pathvalue", path |-> c.paths[1].path,
                  value |-> [q |-> "cmp", op |-> operatorMap[c.leaf.op],
                             val |-> c.leaf.val]]
  ELSE c.ret = [kind |-> "pathvalue", path |-> c.paths[1].path,
                value |-> [q |-> "verbatim", val |-> c.leaf.val]]

\* C16 (as claimed): for a relationship or upload field compared to a string
\* on a path without join, the number-coerced branch is in the filter only if
\* some declared target has a custom number id, every declared target being
\* examined, and without a coerced branch the filter is the plain single
\* comparison.
C16_WithoutBranchPlainComparison ==
  \A i \in 1..Len(calls) :
    IsRelationshipToString(calls[i]) =>
      /\ NumberBranchIffNumberIDTarget(calls[i])
      /\ NoCoercedBranch(calls[i]) => ~IsMultiID(calls[i]) /\ IsPlainComparison(calls[i])

\* C16 (amended): for a relationship or upload field compared to a string on
\* a path without join, the number-coerced branch is in the filter only if
\* some declared target has a custom number id, every declared target being
\* examined, and without a coerced branch the filter is the one the operator
\* gives on any field: the plain single comparison for an operator with a
\* comparison symbol, the conjunction of regex fragments for like, and the
\* value itself for an operator without a symbol (near).
C16_NumberBranchOnlyForNumberIDTargets ==
  \A i \in 1..Len(calls) :
    IsRelationshipToString(calls[i]) =>
      /\ NumberBranchIffNumberIDTarget(calls[i])
      /\ NoCoercedBranch(calls[i]) => ~IsMultiID(calls[i]) /\ IsFilterOfOperator(calls[i])

\* owner, whose second target (and not its first) has a number id, was
\* compared to a string that is no ObjectId, and the filter has the number
\* branch
C16_Witness ==
  /\ Len(calls) = 1
  /\ IsRelationshipToString(calls[1])
  /\ ~ObjectIdIsValid(calls[1].leaf.val.s)
  /\ calls[1].leaf.path = <<"owner">>
  /\ HasBranchOf(calls[1], "number")
  /\ ~IsRelatedToCustomNumberID(calls[1].paths[1].field.relationTo.to[1])

\* the field at position i carries a condition and is not listed
ConditionalIsNotListed(i) ==
  (IsConditional(fields[i]) /\ "name" \in DOMAIN fields[i]) => ~InRequired(fields[i].name)

\* the field at position i is a row or collapsible that carries a condition,
\* and none of the fields it merges into the level is listed
ConditionalRowListsNothing(i) ==
  (IsConditional(fields[i]) /\ fields[i].type \in {"row", "collapsible"}) =>
    \A j \in 1..Len(fields[i].fields) :
      "name" \in DOMAIN fields[i].fields[j] => ~InRequired(fields[i].fields[j].name)

\* C17: no field behind a condition is listed in `required`: not a field that
\* carries a condition, whatever its required flag and its children, and not
\* a field merged into the level from a row or collapsible that carries one.
C17_ConditionalNeverRequired ==
  schema.state = "returned" =>
    \A i \in 1..Len(fields) : ConditionalIsNotListed(i) /\ ConditionalRowListsNothing(i)

HasRequiredChild(fs) == \E j \in 1..Len(fs) : IsRequiredField(fs[j])

\* C18: a group, and a named tab, without a condition is listed in `required`
\* whenever one of its child fields is required; an array is listed only when
\* it is marked required itself, whatever its children.
C18_RequiredFromChildren ==
  schema.state = "returned" =>
    \A i \in 1..Len(fields) :
      /\ (fields[i].type = "group" /\ ~IsConditional(fields[i])
            /\ HasRequiredChild(fields[i].fields))
           => InRequired(fields[i].name)
      /\ (fields[i].type = "tabs" /\ ~IsConditional(fields[i])) =>
           \A j \in 1..Len(fields[i].tabs) :
             (tabHasName(fields[i].tabs[j]) /\ HasRequiredChild(fields[i].tabs[j].fields))
               => InRequired(fields[i].tabs[j].name)
      /\ (fields[i].type = "array" /\ InRequired(fields[i].name))
           => IsMarkedRequired(fields[i])

\* a group without a required flag of its own, with a required child, was
\* derived and is listed
C18_Witness ==
  /\ schema.state = "returned"
  /\ \E i \in 1..Len(fields) :
       /\ fields[i].type = "group"
       /\ ~IsMarkedRequired(fields[i])
       /\ HasRequiredChild(fields[i].fields)
       /\ InRequired(fields[i].name)

IsRow(f) == f.type \in {"row", "collapsible"}

\* the list with the fields of its rows and collapsibles listed directly in
\* their place
Unwrapped(fs) ==
  Flatten([i \in 1..Len(fs) |-> IF IsRow(fs[i]) THEN fs[i].fields ELSE <<fs[i]>>])

\* the derivation just made ended as r did
SameOutcome(r) ==
  /\ schema.error = r.error
  /\ r.error = "none" =>
       /\ schema.properties = r.properties
       /\ schema.required = r.required
       /\ registry = r.rs.interfaceNameDefinitions

\* C19: a list with rows and collapsibles derives to the same properties and
\* the same required names, at the same level, as the list in which the
\* fields of each row or collapsible stand directly in its place.
C19_RowsAreTransparent ==
  Derived =>
    SameOutcome(fieldsToJSONSchema(getCollectionIDFieldTypes(DefaultIDType),
                                   Unwrapped(fields),
                                   [interfaceNameDefinitions |-> <<>>, sets |-> <<>>]))

\* a row with two fields, one of them required, was derived: both are
\* properties of the level and the required one is listed
C19_Witness ==
  /\ schema.state = "returned"
  /\ \E i \in 1..Len(fields) :
       /\ IsRow(fields[i])
       /\ Len(fields[i].fields) = 2
       /\ HasRequiredChild(fields[i].fields)
       /\ Len(schema.properties) = 2
       /\ Len(schema.required) = 1

\* the field list of every entity of the configuration, as the caller sees it
ConfigFieldLists(h, cfg) ==
  [i \in 1..Len(cfg.globals \o cfg.collections) |->
     FieldsOf(h, (cfg.globals \o cfg.collections)[i])]

\* the name is among the required names of the definition d
Requires(d, name) == \E k \in 1..Len(d.required) : d.required[k] = name

\* the definition generated last for the entity e shows the id and createdAt
\* required and has the password
ShowsAdditions(e) ==
  /\ MapHas(generated.definitions, e.slug)
  /\ Requires(MapGet(generated.definitions, e.slug), "id")
  /\ Requires(MapGet(generated.definitions, e.slug), "createdAt")
  /\ MapHas(MapGet(generated.definitions, e.slug).properties, "password")

\* the entity has a custom id and a createdAt field, neither marked required,
\* timestamps, and auth with the local strategy
TakesEveryAddition(e) ==
  /\ "timestamps" \in DOMAIN e /\ e.timestamps
  /\ "auth" \in DOMAIN e /\ ~e.auth.disableLocalStrategy
  /\ \E j \in 1..Len(e.fields) : e.fields[j].name = "id" /\ ~IsMarkedRequired(e.fields[j])
  /\ \E j \in 1..Len(e.fields) :
       e.fields[j].name = "createdAt" /\ ~IsMarkedRequired(e.fields[j])
  /\ \A j \in 1..Len(e.fields) : e.fields[j].name # "password"

\* C20: no call of entityToJSONSchema or configToJSONSchema changes the field
\* list of any entity of the configuration it is given: the id field, the
\* required flags and the password field go to a copy.
C20_ConfigNeverModified ==
  [][ConfigFieldLists(heap', config') = ConfigFieldLists(heap, config)]_vars

\* after MaxCalls calls the configuration still holds a collection whose id and
\* createdAt are not marked required and that has no password field, while
\* the definition generated for it shows all three additions
C20_Witness ==
  /\ generated.made = MaxCalls
  /\ generated.state = "returned"
  /\ \E i \in 1..Len(config.collections) :
       /\ TakesEveryAddition(EntityValue(heap, config.collections[i]))
       /\ ShowsAdditions(EntityValue(heap, config.collections[i]))

\* the call returned undefined because the operator of its leaf is not a
\* valid operator
IsRejectedLeaf(c) ==
  /\ c.threw = "none"
  /\ c.ret.kind = "undefined"
  /\ c.leaf.op \notin validOperators

\* C22: a buildSearchParam call that produces no filter because the operator
\* of the leaf is not valid has appended nothing to the join-stage accumulator
\* and has left the projection as it was.
C22_RejectedLeafLeavesAccumulator ==
  \A i \in 1..Len(calls) :
    IsRejectedLeaf(calls[i])
      => /\ calls[i].after = calls[i].before
         /\ calls[i].projectionAfter = calls[i].projectionBefore

\* every name in the required list of the schema object s is a key of its
\* properties
RequiredAreProperties(s) ==
  "required" \in DOMAIN s
    => /\ "properties" \in DOMAIN s
       /\ \A k \in 1..Len(s.required) : MapHas(s.properties, s.required[k])

\* the same at every level of s: in its properties, in the items of an array
\* (a point's items are a pair of numbers) and in the alternatives of a oneOf
RECURSIVE AtEveryLevel(_)
AtEveryLevel(s) ==
  /\ RequiredAreProperties(s)
  /\ "properties" \in DOMAIN s
       => \A i \in 1..Len(s.properties) : AtEveryLevel(s.properties[i].v)
  /\ ("items" \in DOMAIN s /\ "minItems" \notin DOMAIN s) => AtEveryLevel(s.items)
  /\ "oneOf" \in DOMAIN s => \A i \in 1..Len(s.oneOf) : AtEveryLevel(s.oneOf[i])

\* C23 for fieldsToJSONSchema alone: in the schema derived from a field list,
\* and in every definition it registered, each required name is a property,
\* at every level.
DerivedRequiredAreProperties ==
  /\ schema.state = "returned"
       => AtEveryLevel([properties |-> schema.properties, required |-> schema.required])
  /\ \A i \in 1..Len(registry) : AtEveryLevel(registry[i].v)

\* the auth operations of configToJSONSchema, which are not made of fields:
\* in the schema of each collection, in each operation and in each of its
\* alternatives, each required name is a property
AuthRequiredAreProperties ==
  \A i \in 1..Len(generated.definitions) :
    generated.definitions[i].k = "auth"
      => \A c \in 1..Len(generated.definitions[i].v) :
           LET s == generated.definitions[i].v[c].v
           IN  /\ RequiredAreProperties(s)
               /\ \A p \in 1..Len(s.properties) :
                    IF "oneOf" \in DOMAIN s.properties[p].v
                      THEN \A a \in 1..Len(s.properties[p].v.oneOf) :
                             RequiredAreProperties(s.properties[p].v.oneOf[a])
                      ELSE RequiredAreProperties(s.properties[p].v)

\* C23: in every schema object that fieldsToJSONSchema and entityToJSONSchema
\* produce, at every level and for every default ID type, the omitted one
\* included, each name in `required` is a key of `properties`.
C23_RequiredNamesAreProperties ==
  /\ DerivedRequiredAreProperties
  /\ \A i \in 1..Len(generated.definitions) :
       generated.definitions[i].k # "auth" => AtEveryLevel(generated.definitions[i].v)

\* the Model of the request under way
RequestModel == IF request.operation = "deleteVersions" THEN VersionsModel ELSE CollectionModel

\* the aggregations the database has served
Aggregations == SelectSeq(dbCalls, LAMBDA c : c.call = "aggregate")

\* the run pipeline is the join stages, then $match of the filter, then
\* $project of _id
IsStagesMatchProject(run, stages, filter) ==
  /\ Len(run) = Len(stages) + 2
  /\ SubSeq(run, 1, Len(stages)) = stages
  /\ run[Len(stages) + 1] = [stage |-> "$match", query |-> filter]
  /\ run[Len(stages) + 2] = [stage |-> "$project", keys |-> <<"_id">>]

\* the query selects exactly the _id values of result
SelectsIdsOf(query, result) ==
  /\ Len(query) = 1
  /\ query[1].key = <<"_id">>
  /\ query[1].value.q = "in"
  /\ Len(query[1].value.vals) = Len(result)
  /\ \A i \in 1..Len(result) : query[1].value.vals[i] = result[i]._id

\* what buildQueryWithAggregate did agrees with the translation r of the
\* request's where
AgreesWithTranslation(r) ==
  /\ Aggregations # <<>> <=> (r.state = "returned" /\ r.pipeline # <<>>)
  /\ (r.state = "returned" /\ r.pipeline = <<>>) => request.query = r.filter
  /\ (r.state = "returned" /\ r.pipeline # <<>>)
       => /\ Len(Aggregations) = 1
          /\ IsStagesMatchProject(Aggregations[1].pipeline, r.pipeline, r.filter)
          /\ SelectsIdsOf(request.query, Aggregations[1].result)

\* C21: buildQueryWithAggregate runs an aggregation exactly when the
\* translation appended a join stage.  Without one it returns the translated
\* filter and calls the database not at all; with one the pipeline it runs is
\* the join stages in order, one $match of the filter, and $project of _id
\* last, and it returns the filter that selects the _id values returned.
C21_AggregatesExactlyWhenJoined ==
  request.state \in {"collected", "threw"}
    => AgreesWithTranslation(buildQuery(RequestModel.slug, request.where, <<>>, NoProjection))

\* a where over one join was collected: one aggregation of three stages ran
\* and returned a document
C21_Witness ==
  /\ request.state = "collected"
  /\ Len(Aggregations) = 1
  /\ Len(Aggregations[1].pipeline) = 3
  /\ Len(Aggregations[1].result) = 1

\* what a where means for a document of the collection, in the database db
RelatedArticles(db, doc) == SelectSeq(db.articles, LAMBDA a : a._id = doc.article)

LeafHolds(db, doc, leaf) ==
  LET values == IF leaf.path = <<"title">> THEN {doc.title}
                ELSE { RelatedArticles(db, doc)[i].title :
                         i \in 1..Len(RelatedArticles(db, doc)) }
  IN IF leaf.op = "equals" THEN leaf.val \in values ELSE leaf.val \notin values

RECURSIVE Satisfies(_, _, _)
Satisfies(db, doc, w) ==
  CASE w.kind = "leaf" -> LeafHolds(db, doc, w)
    [] w.kind = "and" -> \A i \in 1..Len(w.children) : Satisfies(db, doc, w.children[i])
    [] w.kind = "or" -> \E i \in 1..Len(w.children) : Satisfies(db, doc, w.children[i])

\* the deleteMany calls the database has served
Deletions == SelectSeq(dbCalls, LAMBDA c : c.call = "deleteMany")

\* C24: every document that deleteMany or deleteVersions removed satisfied
\* the where of the request in the database as it was when it was removed,
\* whatever another client wrote between the aggregation and the delete.
C24_DeletesOnlyWhatSatisfiesWhere ==
  \A k \in 1..Len(Deletions) :
    \A i \in 1..Len(Deletions[k].removed) :
      Satisfies(Deletions[k].database, Deletions[k].removed[i], request.where)

\* the same for the requests whose where needs no join
NoJoinDeletesOnlyWhatSatisfiesWhere ==
  Aggregations = <<>> => C24_DeletesOnlyWhatSatisfiesWhere

\* the same when nobody else writes
AloneDeletesOnlyWhatSatisfiesWhere ==
  (\A k \in 1..Len(dbCalls) : dbCalls[k].call # "updateOne")
    => C24_DeletesOnlyWhatSatisfiesWhere

\* configToJSONSchema was the last call, on a configuration with jobs
JobsGenerated == generated.by = "configToJSONSchema" /\ "jobs" \in DOMAIN config

SlugsOf(jobs) == [i \in 1..Len(jobs) |-> jobs[i].slug]

\* the required list of `tasks` names exactly the declared task slugs
TasksRequiredAreTaskSlugs ==
  (JobsGenerated /\ generated.state = "returned" /\ HasLength(config.jobs, "tasks"))
    => generated.jobs.properties.tasks.required = SlugsOf(config.jobs.tasks)

\* C27: for every jobs configuration, one with workflows and no tasks
\* included, the jobs schema is generated, the required list of `workflows`
\* names exactly the declared workflow slugs and the required list of `tasks`
\* exactly the declared task slugs.
C27_JobsRequiredNameDeclaredSlugs ==
  JobsGenerated
    => /\ generated.state = "returned"
       /\ TasksRequiredAreTaskSlugs
       /\ HasLength(config.jobs, "workflows")
            => generated.jobs.properties.workflows.required = SlugsOf(config.jobs.workflows)

(***************************************************************************)
(* C26                                                                     *)
(***************************************************************************)
\* the login route the unauthenticated request is sent to
LoginRouteOfPage == LoginRoute(RedirectConfig, page.route, page.redirectUnauthenticatedUser)

\* the query parameters of the redirect target
TargetParams == parse(JoinWith(Tail(SplitAt(page.to, "?")), "?"))

\* the requested route followed by its search params, the incoming redirect
\* param left out
RequestedRoute ==
  page.route
    \o (IF Len(WithoutRedirect(page.given).entries) > 0
          THEN <<"?">> \o stringify(WithoutRedirect(page.given).entries)
          ELSE <<>>)

\* the target is the path of the login route, with every query parameter the
\* login route carried
KeepsLoginRoute ==
  /\ SplitAt(page.to, "?")[1] = SplitAt(LoginRouteOfPage, "?")[1]
  /\ \A i \in 1..Len(ParsedLoginRouteSearchParams(LoginRouteOfPage)) :
       LET e == ParsedLoginRouteSearchParams(LoginRouteOfPage)[i]
       IN  e.k # <<"redirect">> => MapHas(TargetParams, e.k) /\ MapGet(TargetParams, e.k) = e.v

\* the redirect parameter of the target decodes to the requested route
RedirectParamIsRequestedRoute ==
  /\ MapHas(TargetParams, <<"redirect">>)
  /\ Unescaped(MapGet(TargetParams, <<"redirect">>)) = RequestedRoute

\* an admin auth route is never redirected, and a redirect keeps the login route
C26_AuthRoutesStayAndLoginRouteKept ==
  page.state = "handled" =>
    IF isAdminAuthRoute(RedirectConfig, page.route, RedirectConfig.adminRoute)
      THEN ~page.redirected
      ELSE page.redirected /\ KeepsLoginRoute

\* C26: handleAuthRedirect performs no redirect for an admin auth route; for
\* any other route it redirects to the login route, keeping the query
\* parameters the login route carried, with a redirect parameter that encodes
\* the requested route followed by its search params (any incoming redirect
\* param removed).
C26_RedirectCarriesRequestedRoute ==
  page.state = "handled" =>
    IF isAdminAuthRoute(RedirectConfig, page.route, RedirectConfig.adminRoute)
      THEN ~page.redirected
      ELSE page.redirected /\ KeepsLoginRoute /\ RedirectParamIsRequestedRoute

(***************************************************************************)
(* C25                                                                     *)
(***************************************************************************)
\* a step that handles a response
HandlesResponse == dialog'.handled = dialog.handled + 1

\* the dialog is open with its confirm and cancel buttons without handlers
OpenAndDisabled == dialog.modal = "open" /\ dialog.submitted

\* the step is the handling of the response res
Handles(res) ==
  /\ dialog.pending > 0
  /\ dialog' = [dialog EXCEPT !.modal = ResponseHandled(dialog, res).modal,
                              !.pending = @ - 1, !.handled = @ + 1,
                              !.log = @ \o ResponseHandled(dialog, res).log]

\* a response whose body is JSON closes the dialog that was open and waiting
C25_ReadableResponseClosesDialog ==
  [][\A res \in ResponseInputs :
       Handles(res) /\ res.body.kind # "unreadable" /\ OpenAndDisabled
         => dialog'.modal = "closed"]_vars

\* C25: once the response to a publish request has been handled (success,
\* error status, or a body that cannot be read as JSON) the dialog is closed
\* or its buttons are usable again: it is never left open with submitted true.
C25_HandledResponseNeverLeavesDialogStuck ==
  [][HandlesResponse => ~(dialog'.modal = "open" /\ dialog'.submitted)]_vars

====
